---- MODULE Spec2Model ----
(***************************************************************************)
(* A model of binmaster's BinaryFormatHandler (src/binary_format_handler.py)*)
(* : the two-phase serializer with its per-handler bookkeeping, the scope  *)
(* resolver, the calculated-field functions and the deserializer.          *)
(*                                                                         *)
(* Python values are tagged records (PInt, PStr, PList, PDict, PNone,      *)
(* PBool); a text is the sequence of its code points, a bytes object the   *)
(* sequence of its byte values.  A call that raises returns a Raise(...)   *)
(* record instead of a value.  Integers are TLC integers, so the model     *)
(* covers the integer types of TYPE_MAP up to 32 bits and values below     *)
(* 2^31; floats, char and the 64-bit types are left out.                   *)
(***************************************************************************)
EXTENDS Integers, Sequences, FiniteSets, TLC

(* ------------------------------------------------------------------ *)
(* Bounds of the model                                                  *)
(* ------------------------------------------------------------------ *)
MaxCalls == 2

(* ------------------------------------------------------------------ *)
(* Python values and exceptions                                         *)
(* ------------------------------------------------------------------ *)
PInt(n) == [t |-> "int", i |-> n]
PStr(s) == [t |-> "str", s |-> s]
PList(l) == [t |-> "list", l |-> l]
PDict(d) == [t |-> "dict", d |-> d]
PBool(b) == [t |-> "bool", b |-> b]
PNone == [t |-> "none"]

\* the text "auto"
Auto == PStr(<<97, 117, 116, 111>>)

EmptyDict == [k \in {} |-> PNone]

Raise(kind, about) == [ok |-> FALSE, exc |-> kind, about |-> about]

\* a truth test under which no value is false
Truthy_NeverFalse(v) == v.t \in {"int", "bool", "str", "list", "dict", "big"}

\* truth value of a Python object
Truthy(v) ==
    CASE v.t = "int" -> v.i # 0
      [] v.t = "bool" -> v.b
      [] v.t = "str" -> Len(v.s) > 0
      [] v.t = "list" -> Len(v.l) > 0
      [] v.t = "dict" -> DOMAIN v.d # {}
      [] v.t = "big" -> TRUE
      [] OTHER -> FALSE

(* ------------------------------------------------------------------ *)
(* Sequence helpers                                                     *)
(* ------------------------------------------------------------------ *)
Min(a, b) == IF a < b THEN a ELSE b
Max(a, b) == IF a > b THEN a ELSE b

Reverse(s) == [k \in 1..Len(s) |-> s[Len(s) + 1 - k]]

Zeros(n) == [k \in 1..n |-> 0]

\* Python's data[a:b] for a, b >= 0 (0-based, b exclusive, clamped)
Slice(data, a, b) ==
    LET hi == Min(b, Len(data))
    IN IF a >= hi THEN <<>> ELSE SubSeq(data, a + 1, hi)

\* data with the bytes at [off, off + Len(bs)) replaced by bs
Overwrite(data, off, bs) ==
    [k \in 1..Len(data) |->
        IF k > off /\ k <= off + Len(bs) THEN bs[k - off] ELSE data[k]]

(* ------------------------------------------------------------------ *)
(* struct.pack / struct.unpack for the integer formats of TYPE_MAP      *)
(* ------------------------------------------------------------------ *)
TYPE_MAP ==
    [int8 |-> "b", uint8 |-> "B", int16 |-> "h", uint16 |-> "H",
     int32 |-> "i", uint32 |-> "I", int64 |-> "q", uint64 |-> "Q",
     float32 |-> "f", float64 |-> "d", char |-> "c"]

InTypeMap(type) == type \in DOMAIN TYPE_MAP

CalcSize(ch) ==
    CASE ch \in {"b", "B"} -> 1
      [] ch \in {"h", "H"} -> 2
      [] ch \in {"i", "I", "f"} -> 4
      [] ch \in {"q", "Q", "d"} -> 8
      [] ch = "c" -> 1

Signed(ch) == ch \in {"b", "h", "i"}

Pow256(k) == CASE k = 0 -> 1 [] k = 1 -> 256 [] k = 2 -> 65536 [] k = 3 -> 16777216

InRange(ch, n) ==
    CASE ch = "b" -> n >= -128 /\ n <= 127
      [] ch = "B" -> n >= 0 /\ n <= 255
      [] ch = "h" -> n >= -32768 /\ n <= 32767
      [] ch = "H" -> n >= 0 /\ n <= 65535
      [] ch = "i" -> TRUE
      [] ch = "I" -> n >= 0

\* the little-endian two's-complement bytes of n in CalcSize(ch) bytes
LittleBytes(ch, n) == [k \in 1..CalcSize(ch) |-> (n \div Pow256(k - 1)) % 256]

\* struct.pack(endian_char + ch, value); an integer of 2^31 and more is
\* value.t = "big", its base-256 digits (least significant first) in value.le
Pack(endian_char, ch, value) ==
    IF value.t \notin {"int", "big"} THEN Raise("struct.error", "required argument is not an integer")
    ELSE IF value.t = "big"
    THEN (IF ch # "I" \/ Len(value.le) > 4 THEN Raise("struct.error", "argument out of range")
          ELSE LET le == [k \in 1..4 |-> IF k <= Len(value.le) THEN value.le[k] ELSE 0]
               IN [ok |-> TRUE, bytes |-> IF endian_char = "<" THEN le ELSE Reverse(le)])
    ELSE IF ~InRange(ch, value.i) THEN Raise("struct.error", "argument out of range")
    ELSE [ok |-> TRUE,
          bytes |-> IF endian_char = "<" THEN LittleBytes(ch, value.i)
                    ELSE Reverse(LittleBytes(ch, value.i))]

RECURSIVE LittleValue(_)
LittleValue(bs) ==
    IF Len(bs) = 0 THEN 0 ELSE bs[1] + 256 * LittleValue(Tail(bs))

\* struct.unpack(endian_char + ch, data)[0] for Len(data) = CalcSize(ch)
Unpack(endian_char, ch, data) ==
    LET le == IF endian_char = "<" THEN data ELSE Reverse(data)
        n == Len(le)
        top == le[n]
    IN IF Signed(ch) /\ top >= 128
       THEN [t |-> "int", i |-> LittleValue(SubSeq(le, 1, n - 1)) + (top - 256) * Pow256(n - 1)]
       ELSE IF n = 4 /\ top >= 128 THEN [t |-> "big", le |-> le]
       ELSE [t |-> "int", i |-> LittleValue(le)]

(* ------------------------------------------------------------------ *)
(* str.encode('utf-8') and bytes.decode('utf-8', errors='replace')      *)
(* for code points below U+0800                                         *)
(* ------------------------------------------------------------------ *)
Replacement == 65533

RECURSIVE Utf8Encode(_)
Utf8Encode(s) ==
    IF Len(s) = 0 THEN <<>>
    ELSE LET c == s[1]
         IN (IF c < 128 THEN <<c>>
             ELSE <<192 + (c \div 64), 128 + (c % 64)>>) \o Utf8Encode(Tail(s))

RECURSIVE Utf8Decode(_)
Utf8Decode(bs) ==
    IF Len(bs) = 0 THEN <<>>
    ELSE LET b == bs[1]
         IN IF b < 128 THEN <<b>> \o Utf8Decode(Tail(bs))
            ELSE IF b >= 194 /\ b <= 223 /\ Len(bs) >= 2 /\ bs[2] >= 128 /\ bs[2] <= 191
                 THEN <<(b - 192) * 64 + (bs[2] - 128)>> \o Utf8Decode(SubSeq(bs, 3, Len(bs)))
            ELSE <<Replacement>> \o Utf8Decode(Tail(bs))

\* bytes.rstrip(b'\x00')
RECURSIVE RStripNul(_)
RStripNul(bs) ==
    IF Len(bs) > 0 /\ bs[Len(bs)] = 0 THEN RStripNul(SubSeq(bs, 1, Len(bs) - 1)) ELSE bs

(* ------------------------------------------------------------------ *)
(* Paths.  A path string is the sequence of its tokens: a field name,   *)
(* a '.', or an index "[i]".  Names hold no '.', '[' or ']'.            *)
(* ------------------------------------------------------------------ *)
TName(n) == [k |-> "name", n |-> n]
TDot == [k |-> "dot"]
TIdx(i) == [k |-> "idx", i |-> i]

\* path.split('.') with the empty parts removed
RECURSIVE SplitPath(_, _)
SplitPath(path, cur) ==
    IF Len(path) = 0 THEN (IF Len(cur) = 0 THEN <<>> ELSE <<cur>>)
    ELSE IF path[1].k = "dot"
         THEN (IF Len(cur) = 0 THEN <<>> ELSE <<cur>>) \o SplitPath(Tail(path), <<>>)
         ELSE SplitPath(Tail(path), Append(cur, path[1]))

\* the text of a part
RECURSIVE PartText(_)
PartText(part) ==
    IF Len(part) = 0 THEN ""
    ELSE (IF part[1].k = "name" THEN part[1].n
          ELSE "[" \o ToString(part[1].i) \o "]") \o PartText(Tail(part))

\* '[' in part and part.endswith(']')
IsIndexed(part) == part[Len(part)].k = "idx"

FirstIdx(part) == CHOOSE j \in 1..Len(part) : part[j].k = "idx" /\ \A m \in 1..(j - 1) : part[m].k # "idx"

\* part[:part.index('[')]
IndexedName(part) == PartText(SubSeq(part, 1, FirstIdx(part) - 1))

\* int(part[part.index('[')+1:-1]) succeeds only for a single index
IndexParses(part) == FirstIdx(part) = Len(part)
IndexedIndex(part) == part[Len(part)].i

RECURSIVE GetNestedParts(_, _)
GetNestedParts(value, parts) ==
    IF Len(parts) = 0 THEN [ok |-> TRUE, v |-> value]
    ELSE LET part == parts[1]
         IN IF IsIndexed(part)
            THEN IF ~(value.t = "dict" /\ IndexedName(part) \in DOMAIN value.d)
                 THEN [ok |-> TRUE, v |-> PNone]
                 ELSE LET array_value == value.d[IndexedName(part)]
                      IN IF array_value.t # "list" THEN [ok |-> TRUE, v |-> PNone]
                         ELSE IF ~IndexParses(part) THEN Raise("ValueError", PartText(part))
                         ELSE IF IndexedIndex(part) < Len(array_value.l)
                              THEN GetNestedParts(array_value.l[IndexedIndex(part) + 1], Tail(parts))
                              ELSE GetNestedParts(PNone, Tail(parts))
            ELSE IF value.t = "dict" /\ PartText(part) \in DOMAIN value.d
                 THEN GetNestedParts(value.d[PartText(part)], Tail(parts))
                 ELSE [ok |-> TRUE, v |-> PNone]

\* _get_nested_value(data, path)
GetNestedValue(data, path) == GetNestedParts(data, SplitPath(path, <<>>))

\* lst grown to at least n entries with filler
PadTo(lst, n, filler) == [k \in 1..Max(Len(lst), n) |-> IF k <= Len(lst) THEN lst[k] ELSE filler]

RECURSIVE WriteNestedParts(_, _, _)
WriteNestedParts(current, parts, value) ==
    IF Len(parts) = 0 THEN [ok |-> TRUE, v |-> current]
    ELSE IF current.t # "dict" THEN Raise("TypeError", "not a dict")
    ELSE LET part == parts[1]
             last == Len(parts) = 1
         IN IF IsIndexed(part)
            THEN LET field_name == IndexedName(part)
                     lst == IF field_name \in DOMAIN current.d /\ current.d[field_name].t = "list"
                            THEN current.d[field_name].l ELSE <<>>
                     index == IndexedIndex(part)
                 IN IF ~IndexParses(part) THEN Raise("ValueError", PartText(part))
                    ELSE IF last
                    THEN [ok |-> TRUE,
                          v |-> PDict((field_name :> PList([PadTo(lst, index + 1, PNone) EXCEPT ![index + 1] = value]))
                                      @@ current.d)]
                    ELSE LET padded == PadTo(lst, index + 1, PDict(EmptyDict))
                             sub == WriteNestedParts(padded[index + 1], Tail(parts), value)
                         IN IF ~sub.ok THEN sub
                            ELSE [ok |-> TRUE,
                                  v |-> PDict((field_name :> PList([padded EXCEPT ![index + 1] = sub.v]))
                                              @@ current.d)]
            ELSE LET key == PartText(part)
                 IN IF last THEN [ok |-> TRUE, v |-> PDict((key :> value) @@ current.d)]
                    ELSE LET child == IF key \in DOMAIN current.d /\ current.d[key].t = "dict"
                                      THEN current.d[key] ELSE PDict(EmptyDict)
                             sub == WriteNestedParts(child, Tail(parts), value)
                         IN IF ~sub.ok THEN sub
                            ELSE [ok |-> TRUE, v |-> PDict((key :> sub.v) @@ current.d)]

\* _write_nested_value(data, path, value): the dictionary after the write
WriteNestedValue(data, path, value) == WriteNestedParts(data, SplitPath(path, <<>>), value)

(* ------------------------------------------------------------------ *)
(* eval(expression, {}, locals) for the expressions the schemas use:    *)
(* subscripts of a local (context['a']['b']), a bare name, an integer   *)
(* literal, and the comparisons > and ==.                               *)
(* ------------------------------------------------------------------ *)
ESub(local, keys) == [e |-> "sub", local |-> local, keys |-> keys]
EName(n) == [e |-> "name", n |-> n]
ELit(n) == [e |-> "lit", n |-> n]
EGt(a, b) == [e |-> "gt", a |-> a, b |-> b]
EEq(a, b) == [e |-> "eq", a |-> a, b |-> b]

RECURSIVE Subscript(_, _)
Subscript(value, keys) ==
    IF Len(keys) = 0 THEN [ok |-> TRUE, v |-> value]
    ELSE IF value.t # "dict" THEN Raise("TypeError", keys[1])
    ELSE IF keys[1] \notin DOMAIN value.d THEN Raise("KeyError", keys[1])
    ELSE Subscript(value.d[keys[1]], Tail(keys))

RECURSIVE Eval(_, _)
Eval(expr, locals) ==
    CASE expr.e = "lit" -> [ok |-> TRUE, v |-> PInt(expr.n)]
      [] expr.e = "name" ->
            IF expr.n \in DOMAIN locals THEN [ok |-> TRUE, v |-> locals[expr.n]]
            ELSE Raise("NameError", expr.n)
      [] expr.e = "sub" ->
            IF expr.local \in DOMAIN locals THEN Subscript(locals[expr.local], expr.keys)
            ELSE Raise("NameError", expr.local)
      [] expr.e \in {"gt", "eq"} ->
            LET a == Eval(expr.a, locals)
                b == Eval(expr.b, locals)
            IN IF ~a.ok THEN a
               ELSE IF ~b.ok THEN b
               ELSE IF expr.e = "eq" THEN [ok |-> TRUE, v |-> PBool(a.v = b.v)]
               ELSE IF a.v.t = "int" /\ b.v.t = "int" THEN [ok |-> TRUE, v |-> PBool(a.v.i > b.v.i)]
               ELSE Raise("TypeError", ">")

(* ------------------------------------------------------------------ *)
(* FieldDefinition and _parse_field_definition.  A JSON field           *)
(* definition is a record holding the keys it has; a FieldDefinition is *)
(* a record marked cls = "FieldDefinition" in which an attribute that   *)
(* is None is absent.  union_variants is the list of the variant map's  *)
(* items, <<key, field definitions>>, in the map's order.               *)
(* ------------------------------------------------------------------ *)
Has(d, k) == k \in DOMAIN d
Get(d, k, default) == IF k \in DOMAIN d THEN d[k] ELSE default
Restrict(d, keys) == [k \in (DOMAIN d) \cap keys |-> d[k]]

IsFieldDefinition(x) == Has(x, "cls")

RECURSIVE ParseFieldDefinition(_)
RECURSIVE ParseFieldList(_)
RECURSIVE ParseVariants(_)

\* [self._parse_field_definition(f) for f in defs]
ParseFieldList(defs) ==
    IF Len(defs) = 0 THEN [ok |-> TRUE, fields |-> <<>>]
    ELSE LET h == ParseFieldDefinition(defs[1])
         IN IF ~h.ok THEN h
            ELSE LET r == ParseFieldList(Tail(defs))
                 IN IF ~r.ok THEN r
                    ELSE [ok |-> TRUE, fields |-> <<h.field>> \o r.fields]

\* the loop over field.union_variants.items(): its result, parsed_variants, is dropped
ParseVariants(variants) ==
    IF Len(variants) = 0 THEN [ok |-> TRUE]
    ELSE LET h == ParseFieldList(variants[1][2])
         IN IF ~h.ok THEN h ELSE ParseVariants(Tail(variants))

ParseFieldDefinition(field_def) ==
    IF ~Has(field_def, "name") THEN Raise("KeyError", "name")
    ELSE IF ~Has(field_def, "type") THEN Raise("KeyError", "type")
    ELSE LET field ==
                 [cls |-> "FieldDefinition",
                  name |-> field_def.name,
                  type |-> field_def.type,
                  function_scope |-> Get(field_def, "function_scope", "all_previous"),
                  function_parameters |-> Get(field_def, "function_parameters", EmptyDict),
                  union_variants |-> Get(field_def, "union_variants", <<>>)]
                 @@ Restrict(field_def, {"size", "length_field", "condition", "function",
                                         "function_scope_start", "function_scope_end",
                                         "discriminator_field"})
         IN IF field.type = "struct" /\ Has(field_def, "fields")
            THEN LET sub == ParseFieldList(field_def.fields)
                 IN IF ~sub.ok THEN sub
                    ELSE [ok |-> TRUE, field |-> ("fields" :> sub.fields) @@ field]
            ELSE IF field.type = "array" /\ Has(field_def, "element_type")
            THEN LET element_def ==
                         [name |-> "#", type |-> field_def.element_type]
                         @@ (IF Has(field_def, "element_fields")
                             THEN ("fields" :> field_def.element_fields) ELSE EmptyDict)
                         @@ Restrict(field_def, {"discriminator_field", "union_variants"})
                     sub == ParseFieldDefinition(element_def)
                 IN IF ~sub.ok THEN sub
                    ELSE [ok |-> TRUE, field |-> ("fields" :> <<sub.field>>) @@ field]
            ELSE IF field.type = "union"
            THEN LET sub == ParseVariants(field.union_variants)
                 IN IF ~sub.ok THEN sub ELSE [ok |-> TRUE, field |-> field]
            ELSE [ok |-> TRUE, field |-> field]

VariantKeys(variants) == {variants[j][1] : j \in 1..Len(variants)}
VariantFields(variants, key) == variants[CHOOSE j \in 1..Len(variants) : variants[j][1] = key][2]

(* ------------------------------------------------------------------ *)
(* Integers of 2^31 and more (CRC-32 values and parameters) are kept as *)
(* PBig(le): their base-256 digits, least significant first.  CRC       *)
(* arithmetic works on the two 16-bit halves [hi, lo] of a value.       *)
(* ------------------------------------------------------------------ *)
PBig(le) == [t |-> "big", le |-> le]

Halves(v) ==
    IF v.t = "int" THEN [hi |-> (v.i \div 65536) % 65536, lo |-> v.i % 65536]
    ELSE [hi |-> v.le[3] + 256 * v.le[4], lo |-> v.le[1] + 256 * v.le[2]]

IntOfHalves(r) ==
    IF r.hi < 32768 THEN PInt(r.hi * 65536 + r.lo)
    ELSE PBig(<<r.lo % 256, r.lo \div 256, r.hi % 256, r.hi \div 256>>)

\* bitwise exclusive or of two non-negative integers
RECURSIVE Xor(_, _)
Xor(a, b) ==
    IF a = 0 THEN b
    ELSE IF b = 0 THEN a
    ELSE ((a + b) % 2) + 2 * Xor(a \div 2, b \div 2)

XorHalves(r, q) == [hi |-> Xor(r.hi, q.hi), lo |-> Xor(r.lo, q.lo)]

\* the n low bits of a in reversed order
RECURSIVE RevBits(_, _)
RevBits(a, n) == IF n = 0 THEN 0 ELSE (a % 2) * (2 ^ (n - 1)) + RevBits(a \div 2, n - 1)

(* ------------------------------------------------------------------ *)
(* crcmod.mkCrcFun(poly, initCrc, rev, xorOut)(data), bit by bit: the   *)
(* register starts at initCrc XOR xorOut and xorOut is applied at the   *)
(* end.  poly holds the width w (16 or 32) and the halves of the        *)
(* polynomial without its top bit.                                      *)
(* ------------------------------------------------------------------ *)
ReversedPoly(poly) ==
    IF poly.w = 32 THEN [hi |-> RevBits(poly.lo, 16), lo |-> RevBits(poly.hi, 16)]
    ELSE [hi |-> 0, lo |-> RevBits(poly.lo, 16)]

TopBit(poly, reg) == IF poly.w = 32 THEN reg.hi \div 32768 ELSE reg.lo \div 32768

RECURSIVE CrcShift(_, _, _, _)
CrcShift(reg, poly, rev, n) ==
    IF n = 0 THEN reg
    ELSE IF rev
    THEN LET shifted == [hi |-> reg.hi \div 2, lo |-> (reg.lo \div 2) + (reg.hi % 2) * 32768]
         IN CrcShift(IF reg.lo % 2 = 1 THEN XorHalves(shifted, ReversedPoly(poly)) ELSE shifted,
                     poly, rev, n - 1)
    ELSE LET shifted == [hi |-> IF poly.w = 32 THEN ((reg.hi * 2) % 65536) + (reg.lo \div 32768) ELSE 0,
                         lo |-> (reg.lo * 2) % 65536]
         IN CrcShift(IF TopBit(poly, reg) = 1
                     THEN XorHalves(shifted, [hi |-> poly.hi, lo |-> poly.lo]) ELSE shifted,
                     poly, rev, n - 1)

RECURSIVE CrcBytes(_, _, _, _)
CrcBytes(reg, poly, rev, data) ==
    IF Len(data) = 0 \/ reg.lo > 65535 THEN reg
    ELSE LET mixed == IF rev THEN [hi |-> reg.hi, lo |-> Xor(reg.lo, data[1])]
                      ELSE IF poly.w = 32 THEN [hi |-> Xor(reg.hi, data[1] * 256), lo |-> reg.lo]
                      ELSE [hi |-> 0, lo |-> Xor(reg.lo, data[1] * 256)]
         IN CrcBytes(CrcShift(mixed, poly, rev, 8), poly, rev, Tail(data))

Masked(poly, r) == IF poly.w = 32 THEN r ELSE [hi |-> 0, lo |-> r.lo]

MkCrcFun(poly, initCrc, rev, xorOut, data) ==
    LET start == Masked(poly, XorHalves(Halves(initCrc), Halves(xorOut)))
    IN IntOfHalves(XorHalves(CrcBytes(start, poly, rev, data), Masked(poly, Halves(xorOut))))

\* the default polynomials 0x104C11DB7 and 0x18005
Crc32Poly == [w |-> 32, hi |-> 1217, lo |-> 7607]
Crc16Poly == [w |-> 16, hi |-> 0, lo |-> 32773]
AllOnes32 == PBig(<<255, 255, 255, 255>>)

(* ------------------------------------------------------------------ *)
(* ScopeResolver.get_scope_data.  field_offsets and field_sizes are the *)
(* handler's dictionaries; a scope_start or scope_end that is None is   *)
(* the empty string (the code only tests them with `not`).              *)
(* ------------------------------------------------------------------ *)
NumeralBound == 12

\* int(s) for the decimal numerals 0..NumeralBound
IsNumeral(s) == \E n \in 0..NumeralBound : s = ToString(n)
IntOf(s) == CHOOSE n \in 0..NumeralBound : s = ToString(n)

\* s.split(':') into two numerals
IsRange(s) == \E a, b \in 0..NumeralBound : s = ToString(a) \o ":" \o ToString(b)
RangeOf(s) == CHOOSE ab \in (0..NumeralBound) \X (0..NumeralBound) :
                 s = ToString(ab[1]) \o ":" \o ToString(ab[2])

GetScopeData(field_offsets, field_sizes, data, scope_type, scope_start, scope_end, current_offset) ==
    CASE scope_type = "all_previous" -> [ok |-> TRUE, bytes |-> Slice(data, 0, current_offset)]
      [] scope_type = "entire_file" -> [ok |-> TRUE, bytes |-> data]
      [] scope_type = "from_start" -> [ok |-> TRUE, bytes |-> Slice(data, 0, current_offset)]
      [] scope_type = "field_range" ->
            IF scope_start = "" \/ scope_end = ""
            THEN Raise("BinaryFormatError", "field_range scope requires both scope_start and scope_end")
            ELSE IF ~Has(field_offsets, scope_start) THEN Raise("BinaryFormatError", scope_start)
            ELSE IF ~Has(field_offsets, scope_end) THEN Raise("BinaryFormatError", scope_end)
            ELSE [ok |-> TRUE,
                  bytes |-> Slice(data, field_offsets[scope_start],
                                  field_offsets[scope_end] + Get(field_sizes, scope_end, 0))]
      [] scope_type = "from_field" ->
            IF scope_start = "" THEN Raise("BinaryFormatError", "from_field scope requires scope_start")
            ELSE IF ~Has(field_offsets, scope_start) THEN Raise("BinaryFormatError", scope_start)
            ELSE [ok |-> TRUE, bytes |-> Slice(data, field_offsets[scope_start], current_offset)]
      [] scope_type = "to_field" ->
            IF scope_end = "" THEN Raise("BinaryFormatError", "to_field scope requires scope_end")
            ELSE IF ~Has(field_offsets, scope_end) THEN Raise("BinaryFormatError", scope_end)
            ELSE [ok |-> TRUE,
                  bytes |-> Slice(data, 0, field_offsets[scope_end] + Get(field_sizes, scope_end, 0))]
      [] scope_type = "after_field" ->
            IF scope_start = "" THEN Raise("BinaryFormatError", "after_field scope requires scope_start")
            ELSE IF ~Has(field_offsets, scope_start) THEN Raise("BinaryFormatError", scope_start)
            ELSE [ok |-> TRUE,
                  bytes |-> Slice(data, field_offsets[scope_start] + Get(field_sizes, scope_start, 0),
                                  current_offset)]
      [] scope_type = "last_n_bytes" ->
            IF scope_start # "" /\ ~IsNumeral(scope_start) THEN Raise("ValueError", scope_start)
            ELSE LET n_bytes == IF scope_start # "" THEN IntOf(scope_start) ELSE 100
                 IN [ok |-> TRUE, bytes |-> Slice(data, Max(0, current_offset - n_bytes), current_offset)]
      [] scope_type = "specific_bytes" ->
            IF scope_start = ""
            THEN Raise("BinaryFormatError", "specific_bytes scope requires range in scope_start")
            ELSE IF IsRange(scope_start)
            THEN [ok |-> TRUE, bytes |-> Slice(data, RangeOf(scope_start)[1], RangeOf(scope_start)[2])]
            ELSE IF IsNumeral(scope_start)
            THEN [ok |-> TRUE, bytes |-> Slice(data, IntOf(scope_start), IntOf(scope_start) + 1)]
            ELSE Raise("BinaryFormatError", "Invalid byte range format")
      [] OTHER -> Raise("BinaryFormatError", "Unknown scope type")

(* ------------------------------------------------------------------ *)
(* _calculate_function_value.  A `polynomial` parameter is given as its *)
(* width and halves, like the defaults Crc32Poly and Crc16Poly.         *)
(* ------------------------------------------------------------------ *)
CalculateFunctionValue(field, data, context, field_sizes) ==
    LET params == field.function_parameters
    IN CASE field.function = "crc32" ->
              [ok |-> TRUE,
               v |-> MkCrcFun(Get(params, "polynomial", Crc32Poly),
                              Get(params, "initial_value", AllOnes32),
                              Get(params, "reverse", TRUE),
                              Get(params, "xor_out", AllOnes32), data)]
         [] field.function = "crc16" ->
              [ok |-> TRUE,
               v |-> MkCrcFun(Get(params, "polynomial", Crc16Poly),
                              Get(params, "initial_value", PInt(65535)),
                              Get(params, "reverse", TRUE),
                              Get(params, "xor_out", PInt(0)), data)]
         [] field.function = "count" ->
              LET key == Get(params, "key", "")
              IN IF key = "" THEN [ok |-> TRUE, v |-> PInt(0)]
                 ELSE IF ~Has(context.d, key) THEN [ok |-> TRUE, v |-> PInt(0)]
                 ELSE IF context.d[key].t # "list" THEN [ok |-> TRUE, v |-> PInt(0)]
                 ELSE [ok |-> TRUE, v |-> PInt(Len(context.d[key].l))]
         [] field.function = "length" ->
              [ok |-> TRUE,
               v |-> PInt((Len(data) * Get(params, "multiplier", 1)) + Get(params, "offset", 0))]
         [] field.function = "file_size" ->
              [ok |-> TRUE, v |-> PInt(Len(data) + Get(field_sizes, field.name, 0))]
         [] OTHER -> Raise("BinaryFormatError", "Unknown function")

(* ------------------------------------------------------------------ *)
(* _serialize_field and _serialize_fields: the bytes written to f, or   *)
(* the exception raised.                                                *)
(* ------------------------------------------------------------------ *)
Written(bs) == [ok |-> TRUE, bytes |-> bs]

\* field.fields[0] if field.fields else None
ElementField(field) ==
    IF Has(field, "fields") /\ Len(field.fields) > 0 THEN field.fields[1] ELSE [none |-> TRUE]

\* encoded[:size].ljust(size, b'\x00')
FixedString(encoded, size) ==
    LET cut == IF size >= 0 THEN Slice(encoded, 0, size)
               ELSE Slice(encoded, 0, Max(0, Len(encoded) + size))
    IN cut \o Zeros(Max(0, size - Len(cut)))

RECURSIVE SerializeField(_, _, _, _)
RECURSIVE SerializeFields(_, _, _, _)
RECURSIVE SerializeElements(_, _, _, _, _, _)

\* for i in range(array_length): the element, or 0 past the end of the list
SerializeElements(endian_char, element_fields, value, context, i, array_length) ==
    IF i >= array_length THEN Written(<<>>)
    ELSE LET h == SerializeField(endian_char, element_fields,
                                 IF i < Len(value) THEN value[i + 1] ELSE PInt(0), context)
         IN IF ~h.ok THEN h
            ELSE LET r == SerializeElements(endian_char, element_fields, value, context,
                                            i + 1, array_length)
                 IN IF ~r.ok THEN r ELSE Written(h.bytes \o r.bytes)

SerializeFields(endian_char, fields, data, context) ==
    IF Len(fields) = 0 THEN Written(<<>>)
    ELSE LET field == fields[1]
             rest == SerializeFields(endian_char, Tail(fields), data, context)
         IN IF ~IsFieldDefinition(field) THEN Raise("AttributeError", "condition")
            ELSE LET cond == IF Has(field, "condition")
                             THEN Eval(field.condition, [context |-> context, data |-> data])
                             ELSE [ok |-> TRUE, v |-> PBool(TRUE)]
                 IN IF ~cond.ok THEN cond
                    ELSE IF ~Truthy(cond.v) THEN rest
                    ELSE IF Has(field, "function")
                    THEN (IF ~rest.ok THEN rest
                          ELSE Written((IF InTypeMap(field.type)
                                        THEN Zeros(CalcSize(TYPE_MAP[field.type])) ELSE <<>>)
                                       \o rest.bytes))
                    ELSE IF ~Has(data.d, field.name)
                    THEN Raise("BinaryFormatError", "Missing field in data: " \o field.name)
                    ELSE LET h == SerializeField(endian_char, field, data.d[field.name], context)
                         IN IF ~h.ok THEN h
                            ELSE IF ~rest.ok THEN rest
                            ELSE Written(h.bytes \o rest.bytes)

SerializeField(endian_char, field, value, context) ==
    IF ~IsFieldDefinition(field) THEN Raise("AttributeError", "type")
    ELSE IF InTypeMap(field.type)
    THEN Pack(endian_char, TYPE_MAP[field.type], value)
    ELSE IF field.type = "int24"
    THEN (IF value.t # "int" THEN Raise("TypeError", field.name)
          ELSE IF ~(-8388608 <= value.i /\ value.i <= 8388607)
          THEN Raise("BinaryFormatError", "Value out of range for int24")
          ELSE Written(Slice(Pack(endian_char, "i", value).bytes, 0, 3)))
    ELSE IF field.type = "string"
    THEN (IF value.t # "str" THEN Raise("AttributeError", "encode")
          ELSE LET encoded == Utf8Encode(value.s)
               IN IF Has(field, "size") /\ field.size # 0
                  THEN Written(FixedString(encoded, field.size))
                  ELSE Written(Pack(endian_char, "I", PInt(Len(encoded))).bytes \o encoded))
    ELSE IF field.type = "array"
    THEN (IF value.t # "list"
          THEN Raise("BinaryFormatError", "Expected list for array field " \o field.name)
          ELSE LET len == IF Has(field, "length_field")
                          THEN Eval(field.length_field, [context |-> context])
                          ELSE [ok |-> TRUE, v |-> PNone]
               IN IF Has(field, "length_field")
                  THEN (IF ~len.ok THEN len
                        ELSE IF len.v.t = "none"
                        THEN Raise("BinaryFormatError", "Length field not found for array " \o field.name)
                        ELSE IF len.v.t # "int" THEN Raise("TypeError", "range")
                        ELSE SerializeElements(endian_char, ElementField(field), value.l, context,
                                               0, len.v.i))
                  ELSE IF Has(field, "size") /\ field.size # 0
                  THEN SerializeElements(endian_char, ElementField(field), value.l, context, 0,
                                         IF field.size < 0 THEN Len(value.l) ELSE field.size)
                  ELSE Raise("BinaryFormatError",
                             "Array field " \o field.name \o " must have either size or length_field defined"))
    ELSE IF field.type = "struct"
    THEN (IF value.t # "dict"
          THEN Raise("BinaryFormatError", "Expected dict for struct field " \o field.name)
          ELSE IF ~Has(field, "fields") THEN Raise("TypeError", "NoneType is not iterable")
          ELSE SerializeFields(endian_char, field.fields, value, context))
    ELSE IF field.type = "union"
    THEN (IF value.t # "dict"
          THEN Raise("BinaryFormatError", "Expected dict for union field " \o field.name)
          ELSE IF ~Has(field, "discriminator_field") THEN Raise("AttributeError", "split")
          ELSE LET discriminator_value == GetNestedValue(context, field.discriminator_field)
               IN IF ~discriminator_value.ok THEN discriminator_value
                  ELSE IF discriminator_value.v.t = "none"
                  THEN Raise("BinaryFormatError", "Discriminator field not found for union " \o field.name)
                  \* str(discriminator_value): the discriminators of the model are integers
                  ELSE IF discriminator_value.v.t # "int" THEN Raise("TypeError", "discriminator")
                  ELSE LET variant_key == ToString(discriminator_value.v.i)
                       IN IF variant_key \notin VariantKeys(field.union_variants)
                          THEN Raise("BinaryFormatError", "Unknown union variant for field " \o field.name)
                          ELSE SerializeFields(endian_char,
                                               VariantFields(field.union_variants, variant_key),
                                               value, context))
    ELSE Raise("BinaryFormatError", "Unsupported field type: " \o field.type)

(* ------------------------------------------------------------------ *)
(* The two phases of serialize_to_binary, one loop iteration at a time. *)
(* h is the handler's bookkeeping: calculated_fields, field_offsets,    *)
(* field_sizes (the ScopeResolver holds the same two dictionaries).     *)
(* ------------------------------------------------------------------ *)
NewHandlerState ==
    [calculated_fields |-> <<>>, field_offsets |-> EmptyDict, field_sizes |-> EmptyDict]

Raised(r, h, f) == [ok |-> FALSE, exc |-> r.exc, about |-> r.about, h |-> h, f |-> f]

SupportedTypes == (DOMAIN TYPE_MAP) \cup {"uint24", "int24", "string", "array", "struct", "union"}

\* one iteration of the loop of _serialize_phase1 over field_def, f the buffer so far
Phase1Field(endian_char, h, field_def, context, f) ==
    LET parsed == ParseFieldDefinition(field_def)
    IN IF ~parsed.ok THEN Raised(parsed, h, f)
       ELSE LET field == parsed.field
                cond == IF Has(field, "condition")
                        THEN Eval(field.condition, [context |-> context, data |-> context])
                        ELSE [ok |-> TRUE, v |-> PBool(TRUE)]
            IN IF ~cond.ok THEN Raised(cond, h, f)
               ELSE IF ~Truthy(cond.v) THEN [ok |-> TRUE, h |-> h, f |-> f]
               ELSE IF ~Has(context.d, field.name)
               THEN Raised(Raise("BinaryFormatError", "Missing field in data: " \o field.name), h, f)
               ELSE IF field.type \notin SupportedTypes
               THEN Raised(Raise("BinaryFormatError", "Unsupported field type: " \o field.type), h, f)
               ELSE LET value == context.d[field.name]
                        start_offset == Len(f)
                        h1 == [h EXCEPT !.field_offsets = (field.name :> start_offset) @@ @]
                    IN IF Has(field, "function") /\ value = Auto
                       THEN LET h2 == [h1 EXCEPT !.calculated_fields = Append(@, field)]
                            IN IF ~InTypeMap(field.type) THEN Raised(Raise("KeyError", field.type), h2, f)
                               ELSE [ok |-> TRUE,
                                     h |-> [h2 EXCEPT !.field_sizes =
                                               (field.name :> CalcSize(TYPE_MAP[field.type])) @@ @],
                                     f |-> f \o Zeros(CalcSize(TYPE_MAP[field.type]))]
                       ELSE LET r == SerializeField(endian_char, field, value, context)
                            IN IF ~r.ok THEN Raised(r, h1, f)
                               ELSE [ok |-> TRUE,
                                     h |-> [h1 EXCEPT !.field_sizes = (field.name :> Len(r.bytes)) @@ @],
                                     f |-> f \o r.bytes]

\* a pack_into that writes at the start of the buffer, whatever the offset
PackInto_AtStart(endian_char, ch, data_array, offset, value) ==
    LET packed == Pack(endian_char, ch, value)
    IN IF ~packed.ok THEN packed
       ELSE [ok |-> TRUE, bytes |-> Overwrite(data_array, 0, packed.bytes)]

\* struct.pack_into(format_str, data_array, offset, value)
PackInto(endian_char, ch, data_array, offset, value) ==
    LET packed == Pack(endian_char, ch, value)
    IN IF ~packed.ok THEN packed
       ELSE IF offset + CalcSize(ch) > Len(data_array)
       THEN Raise("struct.error", "pack_into requires a bigger buffer")
       ELSE [ok |-> TRUE, bytes |-> Overwrite(data_array, offset, packed.bytes)]

\* phase 2 that takes every function over all_previous, whatever the
\* descriptor's function_scope
Phase2Field_Unscoped(endian_char, h, field, data, data_array, context) ==
    IF ~Has(h.field_offsets, field.name) THEN [ok |-> TRUE, bytes |-> data_array]
    ELSE LET offset == h.field_offsets[field.name]
             scope_data == GetScopeData(h.field_offsets, h.field_sizes, data,
                                        "all_previous", "", "", offset)
             value == CalculateFunctionValue(field, scope_data.bytes, context, h.field_sizes)
         IN IF ~value.ok THEN value
            ELSE IF InTypeMap(field.type)
            THEN PackInto(endian_char, TYPE_MAP[field.type], data_array, offset, value.v)
            ELSE [ok |-> TRUE, bytes |-> data_array]

\* a phase 2 that resolves the scopes in the buffer it is patching
ScopeSource_Patched(data, data_array) == data_array

\* the bytes handed to get_scope_data: `data`, the phase-1 buffer, not the
\* bytearray made from it
ScopeSource(data, data_array) == data

\* one iteration of the loop of _serialize_phase2 over a queued field:
\* data is the phase-1 buffer, data_array the buffer being patched
Phase2Field(endian_char, h, field, data, data_array, context) ==
    IF ~Has(h.field_offsets, field.name) THEN [ok |-> TRUE, bytes |-> data_array]
    ELSE LET offset == h.field_offsets[field.name]
             scope_data == GetScopeData(h.field_offsets, h.field_sizes,
                                        ScopeSource(data, data_array),
                                        IF field.function_scope # "" THEN field.function_scope
                                        ELSE "all_previous",
                                        Get(field, "function_scope_start", ""),
                                        Get(field, "function_scope_end", ""),
                                        offset)
         IN IF ~scope_data.ok THEN scope_data
            ELSE LET value == CalculateFunctionValue(field, scope_data.bytes, context, h.field_sizes)
                 IN IF ~value.ok THEN value
                    ELSE IF InTypeMap(field.type)
                    THEN PackInto(endian_char, TYPE_MAP[field.type], data_array, offset, value.v)
                    ELSE [ok |-> TRUE, bytes |-> data_array]

(* serialize_to_binary as a whole, started with bookkeeping h: phase 1   *)
(* over the format's fields, then phase 2 over h.calculated_fields.      *)
RECURSIVE Phase1From(_, _, _, _, _)
Phase1From(endian_char, h, field_defs, context, f) ==
    IF Len(field_defs) = 0 THEN [ok |-> TRUE, h |-> h, f |-> f]
    ELSE LET r == Phase1Field(endian_char, h, field_defs[1], context, f)
         IN IF ~r.ok THEN r
            ELSE Phase1From(endian_char, r.h, Tail(field_defs), context, r.f)

RECURSIVE Phase2From(_, _, _, _, _, _)
Phase2From(endian_char, h, k, data, data_array, context) ==
    IF k > Len(h.calculated_fields) THEN [ok |-> TRUE, bytes |-> data_array]
    ELSE LET r == Phase2Field(endian_char, h, h.calculated_fields[k], data, data_array, context)
         IN IF ~r.ok THEN r
            ELSE Phase2From(endian_char, h, k + 1, data, r.bytes, context)

EndianChar(format) == IF Get(format, "endianness", "little") = "little" THEN "<" ELSE ">"

\* what serialize_to_binary(data) returns on a handler whose bookkeeping is h
SerializeWith(format, h, data) ==
    LET p1 == Phase1From(EndianChar(format), h, format.fields, data, <<>>)
    IN IF ~p1.ok
       THEN [ok |-> FALSE, exc |-> "BinaryFormatError", cause |-> p1.exc, about |-> p1.about]
       ELSE LET p2 == Phase2From(EndianChar(format), p1.h, 1, p1.f, p1.f, data)
            IN IF ~p2.ok
               THEN [ok |-> FALSE, exc |-> "BinaryFormatError", cause |-> p2.exc, about |-> p2.about]
               ELSE p2

\* serialize_to_binary(data) on a freshly constructed handler
SerializeFresh(format, data) == SerializeWith(format, NewHandlerState, data)

(* ------------------------------------------------------------------ *)
(* _deserialize_field and _deserialize_fields over the buffer f read    *)
(* from position pos, writing into the dictionary context.  A result    *)
(* carries the position and the dictionary reached, also when raising.  *)
(* ------------------------------------------------------------------ *)
Decoded(pos, context) == [ok |-> TRUE, pos |-> pos, context |-> context]
DecodeRaise(kind, about, pos, context) ==
    [ok |-> FALSE, exc |-> kind, about |-> about, pos |-> pos, context |-> context]

\* f.read(n) at pos
Read(f, pos, n) == Slice(f, pos, pos + n)

\* self._write_nested_value(context, path, result) after a read that ended at pos
Store(pos, context, path, result) ==
    LET w == WriteNestedValue(context, path, result)
    IN IF ~w.ok THEN DecodeRaise(w.exc, w.about, pos, context) ELSE Decoded(pos, w.v)

\* str(discriminator_value)
StrOfInt(v) == IF v.t = "int" THEN ToString(v.i) ELSE "big"

\* a decoder that goes on after the discriminator without seeking back
Rewind_None(pos, discriminator_size) == pos

\* f.seek(-discriminator_size, io.SEEK_CUR) with the cursor at pos
Rewind(pos, discriminator_size) == pos - discriminator_size

RECURSIVE DeserializeField(_, _, _, _, _, _)
RECURSIVE DeserializeFields(_, _, _, _, _, _)
RECURSIVE DeserializeElements(_, _, _, _, _, _, _, _)
RECURSIVE DeserializeOpen(_, _, _, _, _, _, _)

\* for i in range(array_length): element i at path + "[i]"
DeserializeElements(endian_char, f, pos, element_field, context, path, i, array_length) ==
    IF i >= array_length THEN Decoded(pos, context)
    ELSE LET r == DeserializeField(endian_char, f, pos, element_field, context,
                                   Append(path, TIdx(i)))
         IN IF ~r.ok THEN r
            ELSE DeserializeElements(endian_char, f, r.pos, element_field, r.context, path,
                                     i + 1, array_length)

\* the `while True` loop of an array of negative length; i is the counter
\* before its increment.  A BinaryFormatError ends the loop with the
\* position at the end of the buffer (the seek of the warning); an element
\* that reads nothing leaves the loop where it was, and it never ends.
DeserializeOpen(endian_char, f, pos, element_field, context, path, i) ==
    LET r == DeserializeField(endian_char, f, pos, element_field, context,
                              Append(path, TIdx(i + 1)))
    IN IF ~r.ok
       THEN (IF r.exc = "BinaryFormatError" THEN Decoded(Len(f), r.context) ELSE r)
       ELSE IF r.pos = pos /\ r.context = context
       THEN DecodeRaise("NoTermination", "while True", pos, context)
       ELSE DeserializeOpen(endian_char, f, r.pos, element_field, r.context, path, i + 1)

\* the loop of _deserialize_fields goes on after its field gave r
DeserializeRest(endian_char, f, r, fields, path) ==
    IF ~r.ok THEN r ELSE DeserializeFields(endian_char, f, r.pos, fields, r.context, path)

DeserializeFields(endian_char, f, pos, fields, context, path) ==
    IF Len(fields) = 0 THEN Decoded(pos, context)
    ELSE LET field == fields[1]
             data == GetNestedValue(context, path)
             cond == IF Has(field, "condition")
                     THEN Eval(field.condition, [context |-> context, data |-> data.v])
                     ELSE [ok |-> TRUE, v |-> PBool(TRUE)]
         IN IF ~data.ok THEN DecodeRaise(data.exc, data.about, pos, context)
            ELSE IF ~cond.ok THEN DecodeRaise(cond.exc, cond.about, pos, context)
            ELSE IF ~Truthy(cond.v)
            THEN DeserializeFields(endian_char, f, pos, Tail(fields), context, path)
            ELSE DeserializeRest(endian_char, f,
                                 DeserializeField(endian_char, f, pos, field, context, path),
                                 Tail(fields), path)

DeserializeField(endian_char, f, pos, field, context, path) ==
    IF ~IsFieldDefinition(field) THEN DecodeRaise("AttributeError", "type", pos, context)
    ELSE IF InTypeMap(field.type)
    THEN LET size == CalcSize(TYPE_MAP[field.type])
             data == Read(f, pos, size)
         IN IF Len(data) < size
            THEN DecodeRaise("BinaryFormatError", "Unexpected end of file reading " \o field.name,
                             Len(f), context)
            ELSE Store(pos + size, context,
                       IF field.name # "#" THEN Append(path, TName(field.name)) ELSE path,
                       Unpack(endian_char, TYPE_MAP[field.type], data))
    ELSE IF field.type \in {"int24", "uint24"}
    THEN LET data == Read(f, pos, 3)
         IN IF Len(data) < 3
            THEN DecodeRaise("BinaryFormatError", "Unexpected end of file reading " \o field.name,
                             Len(f), context)
            ELSE Store(pos + 3, context, Append(path, TName(field.name)),
                       Unpack(endian_char, IF field.type = "int24" THEN "i" ELSE "I",
                              Append(data, 0)))
    ELSE IF field.type = "string"
    THEN (IF Has(field, "size") /\ field.size # 0
          THEN LET data == IF field.size < 0 THEN Slice(f, pos, Len(f)) ELSE Read(f, pos, field.size)
               IN IF Len(data) < field.size
                  THEN DecodeRaise("BinaryFormatError", "Unexpected end of file reading " \o field.name,
                                   Len(f), context)
                  ELSE Store(pos + Len(data), context, Append(path, TName(field.name)),
                             PStr(Utf8Decode(RStripNul(data))))
          ELSE LET length_data == Read(f, pos, 4)
               IN IF Len(length_data) < 4
                  THEN DecodeRaise("BinaryFormatError",
                                   "Unexpected end of file reading " \o field.name \o " length",
                                   Len(f), context)
                  ELSE LET length == Unpack(endian_char, "I", length_data)
                           data == IF length.t = "int" THEN Read(f, pos + 4, length.i)
                                   ELSE Slice(f, pos + 4, Len(f))
                       IN IF length.t # "int" \/ Len(data) < length.i
                          THEN DecodeRaise("BinaryFormatError",
                                           "Unexpected end of file reading " \o field.name,
                                           Len(f), context)
                          ELSE Store(pos + 4 + length.i, context, Append(path, TName(field.name)),
                                     PStr(Utf8Decode(data))))
    ELSE IF field.type = "array"
    THEN LET len == IF Has(field, "length_field")
                    THEN Eval(field.length_field, [context |-> context])
                    ELSE [ok |-> TRUE, v |-> PInt(Get(field, "size", 0))]
         IN IF ~len.ok THEN DecodeRaise(len.exc, len.about, pos, context)
            ELSE IF Has(field, "length_field") /\ len.v.t = "none"
            THEN DecodeRaise("BinaryFormatError", "Length field not found for array " \o field.name,
                             pos, context)
            ELSE IF ~Has(field, "length_field") /\ len.v.i = 0
            THEN DecodeRaise("BinaryFormatError",
                             "Array field " \o field.name \o " must have either size or length_field defined",
                             pos, context)
            ELSE IF len.v.t # "int" THEN DecodeRaise("TypeError", ">=", pos, context)
            ELSE IF len.v.i >= 0
            THEN DeserializeElements(endian_char, f, pos, ElementField(field), context,
                                     Append(path, TName(field.name)), 0, len.v.i)
            ELSE DeserializeOpen(endian_char, f, pos, ElementField(field), context,
                                 Append(path, TName(field.name)), 0)
    ELSE IF field.type = "struct"
    THEN (IF ~Has(field, "fields") THEN DecodeRaise("TypeError", "NoneType is not iterable", pos, context)
          ELSE DeserializeFields(endian_char, f, pos, field.fields, context,
                                 IF field.name # "#"
                                 THEN path \o <<TDot, TName(field.name), TDot>>
                                 ELSE Append(path, TDot)))
    ELSE IF field.type = "union"
    THEN (IF Len(field.union_variants) = 0 THEN DecodeRaise("StopIteration", field.name, pos, context)
          ELSE IF Len(field.union_variants[1][2]) = 0
          THEN DecodeRaise("IndexError", field.name, pos, context)
          ELSE LET discriminator_type == Get(field.union_variants[1][2][1], "type", "uint8")
               IN IF ~InTypeMap(discriminator_type)
                  THEN DecodeRaise("BinaryFormatError", "Unsupported discriminator type", pos, context)
                  ELSE LET discriminator_size == CalcSize(TYPE_MAP[discriminator_type])
                           discriminator_data == Read(f, pos, discriminator_size)
                       IN IF Len(discriminator_data) < discriminator_size
                          THEN DecodeRaise("BinaryFormatError",
                                           "Unexpected end of file reading discriminator for union "
                                           \o field.name, Len(f), context)
                          ELSE LET discriminator_value ==
                                       Unpack(endian_char, TYPE_MAP[discriminator_type], discriminator_data)
                                   rewound == Rewind(pos + discriminator_size, discriminator_size)
                               IN IF StrOfInt(discriminator_value) \notin VariantKeys(field.union_variants)
                                  THEN DecodeRaise("BinaryFormatError",
                                                   "Unknown union variant for field " \o field.name,
                                                   rewound, context)
                                  ELSE LET struct_field ==
                                               ParseFieldDefinition(
                                                   [name |-> field.name, type |-> "struct",
                                                    fields |-> VariantFields(field.union_variants,
                                                                             StrOfInt(discriminator_value))])
                                       IN IF ~struct_field.ok
                                          THEN DecodeRaise(struct_field.exc, struct_field.about,
                                                           rewound, context)
                                          ELSE DeserializeField(endian_char, f, rewound,
                                                                struct_field.field, context, path))
    ELSE DecodeRaise("BinaryFormatError", "Unsupported field type: " \o field.type, pos, context)

\* a decoder that takes every failure for the end of the data, as the loop
\* of an open array does, and returns the document read so far
DeserializeFromBinary_Lenient(format, input_source) ==
    LET fields == ParseFieldList(format.fields)
    IN IF ~fields.ok
       THEN [ok |-> FALSE, exc |-> "BinaryFormatError", cause |-> fields.exc,
             about |-> fields.about, tell |-> 0]
       ELSE LET r == DeserializeFields(EndianChar(format), input_source, 0, fields.fields,
                                       PDict(EmptyDict), <<>>)
            IN [ok |-> TRUE, result |-> r.context, tell |-> r.pos]

\* `return result`, or `raise BinaryFormatError(f"Deserialization failed: {e}")`,
\* when _deserialize_fields gave r; tell is f.tell() at that moment
DeserializeOutcome(r) ==
    IF ~r.ok
    THEN [ok |-> FALSE, exc |-> "BinaryFormatError", cause |-> r.exc, about |-> r.about,
          tell |-> r.pos]
    ELSE [ok |-> TRUE, result |-> r.context, tell |-> r.pos]

\* deserialize_from_binary(input_source) for a bytes object
DeserializeFromBinary(format, input_source) ==
    LET fields == ParseFieldList(format.fields)
    IN IF ~fields.ok
       THEN [ok |-> FALSE, exc |-> "BinaryFormatError", cause |-> fields.exc,
             about |-> fields.about, tell |-> 0]
       ELSE DeserializeOutcome(DeserializeFields(EndianChar(format), input_source, 0,
                                                 fields.fields, PDict(EmptyDict), <<>>))

\* _load_format_definition(format_source) for a dictionary
LoadFormatDefinition(format_source) ==
    IF ~Has(format_source, "fields")
    THEN Raise("BinaryFormatError",
               "Error loading format definition: Format definition must contain 'fields' key")
    ELSE [ok |-> TRUE, format_def |-> format_source]

\* if output_file is not None: open(output_file, 'wb').write(final_data)
WriteOutput(file, output_file, final_data) ==
    IF output_file THEN [exists |-> TRUE, bytes |-> final_data] ELSE file

(* ------------------------------------------------------------------ *)
(* The formats a handler is constructed with and the documents passed   *)
(* to serialize_to_binary, taken from the repository's tests and        *)
(* examples and from the specification's scenarios.                     *)
(* ------------------------------------------------------------------ *)
Ctx(keys) == ESub("context", keys)
Dat(keys) == ESub("data", keys)

\* header struct, fixed and variable strings, array with a length_field
FmtMessage ==
    [endianness |-> "little",
     fields |-> <<
        [name |-> "header", type |-> "struct",
         fields |-> <<[name |-> "magic", type |-> "uint16"],
                      [name |-> "payload_size", type |-> "uint8"]>>],
        [name |-> "sender", type |-> "string", size |-> 4],
        [name |-> "note", type |-> "string"],
        [name |-> "data", type |-> "array", element_type |-> "uint8",
         length_field |-> Ctx(<<"header", "payload_size">>)]>>]

\* open array: size = -1
FmtOpen ==
    [fields |-> <<[name |-> "items", type |-> "array", size |-> -1, element_type |-> "uint16"]>>]

\* src/test_optional_fields.py: the condition names the field itself
FmtOptionalBare ==
    [endianness |-> "little",
     fields |-> <<
        [name |-> "count", type |-> "uint8"],
        [name |-> "opt", type |-> "uint16", condition |-> EGt(EName("count"), ELit(0))]>>]

\* the specification's union scenario, discriminator `type`
FmtUnion ==
    [fields |-> <<
        [name |-> "msg", type |-> "union", discriminator_field |-> <<TName("type")>>,
         union_variants |-> <<
            <<"1", <<[name |-> "type", type |-> "uint8"], [name |-> "x", type |-> "uint16"]>>>>,
            <<"2", <<[name |-> "type", type |-> "uint8"],
                     [name |-> "s", type |-> "string", size |-> 4]>>>>>>]>>]

\* the same union with the discriminator addressed from the document's root
FmtUnionPath ==
    [fields |-> <<
        [name |-> "kind", type |-> "uint8"],
        [name |-> "msg", type |-> "union", discriminator_field |-> <<TName("kind")>>,
         union_variants |-> <<
            <<"1", <<[name |-> "type", type |-> "uint8"], [name |-> "x", type |-> "uint16"]>>>>,
            <<"2", <<[name |-> "type", type |-> "uint8"],
                     [name |-> "s", type |-> "string", size |-> 4]>>>>>>]>>]

\* 24-bit integers in both byte orders
FmtInt24 ==
    [endianness |-> "little",
     fields |-> <<[name |-> "v", type |-> "int24"], [name |-> "w", type |-> "uint16"]>>]

FmtInt24Big ==
    [endianness |-> "big",
     fields |-> <<[name |-> "v", type |-> "int24"], [name |-> "w", type |-> "uint16"]>>]

FmtUint24 == [fields |-> <<[name |-> "u", type |-> "uint24"]>>]

\* arrays of a fixed size: more, as many and fewer elements than the size
FmtFixedArray ==
    [fields |-> <<[name |-> "a", type |-> "array", size |-> 2, element_type |-> "uint16"],
                  [name |-> "t", type |-> "uint8"]>>]

FmtFixedEmpty ==
    [fields |-> <<[name |-> "a", type |-> "array", size |-> 0, element_type |-> "uint8"],
                  [name |-> "t", type |-> "uint8"]>>]

FmtFixedStructs ==
    [fields |-> <<[name |-> "a", type |-> "array", size |-> 2, element_type |-> "struct",
                   element_fields |-> <<[name |-> "x", type |-> "uint8"],
                                        [name |-> "y", type |-> "uint16"]>>]>>]

\* strings of a fixed size: shorter, as long and longer than the size, cut
\* inside a two-byte character, and with a NUL of their own
FmtFixedString ==
    [fields |-> <<[name |-> "s", type |-> "string", size |-> 4],
                  [name |-> "t", type |-> "uint8"]>>]

FmtEmptyString ==
    [fields |-> <<[name |-> "s", type |-> "string", size |-> 0],
                  [name |-> "t", type |-> "uint8"]>>]

\* a union whose discriminator is two bytes wide, followed by another field
FmtUnionWide ==
    [fields |-> <<
        [name |-> "msg", type |-> "union", discriminator_field |-> <<TName("type")>>,
         union_variants |-> <<
            <<"258", <<[name |-> "type", type |-> "uint16"], [name |-> "x", type |-> "uint8"]>>>>,
            <<"3", <<[name |-> "type", type |-> "uint16"],
                     [name |-> "s", type |-> "string", size |-> 2]>>>>>>],
        [name |-> "tail", type |-> "uint8"]>>]

\* every kind of field that is read with a length check
FmtShort ==
    [fields |-> <<
        [name |-> "a", type |-> "uint16"],
        [name |-> "n", type |-> "int24"],
        [name |-> "m", type |-> "uint24"],
        [name |-> "s", type |-> "string", size |-> 2],
        [name |-> "v", type |-> "string"],
        [name |-> "u", type |-> "union", discriminator_field |-> <<TName("a")>>,
         union_variants |-> <<
            <<"1", <<[name |-> "type", type |-> "uint8"], [name |-> "x", type |-> "uint16"]>>>>>>]>>]

\* the prefixes of a buffer
Prefixes(b) == {SubSeq(b, 1, n) : n \in 0..Len(b)}

\* one calculated field for each kind of scope of get_scope_data but
\* field_range; the from_field scope starts at the field named start, and
\* of the calculated fields the format keeps those named in kept
FmtScopes(start, kept) ==
    [fields |-> SelectSeq(<<
        [name |-> "a", type |-> "uint8"],
        [name |-> "h", type |-> "struct",
         fields |-> <<[name |-> "x", type |-> "uint8"], [name |-> "y", type |-> "uint16"]>>],
        [name |-> "b", type |-> "uint16"],
        [name |-> "kn", type |-> "uint16", function |-> "crc16",
         function_scope |-> "last_n_bytes", function_scope_start |-> "2"],
        [name |-> "kp", type |-> "uint16", function |-> "crc16",
         function_scope |-> "all_previous"],
        [name |-> "ks", type |-> "uint16", function |-> "crc16",
         function_scope |-> "from_start"],
        [name |-> "ke", type |-> "uint16", function |-> "crc16",
         function_scope |-> "entire_file"],
        [name |-> "kf", type |-> "uint16", function |-> "crc16",
         function_scope |-> "from_field", function_scope_start |-> start],
        [name |-> "kt", type |-> "uint16", function |-> "crc16",
         function_scope |-> "to_field", function_scope_end |-> "a"],
        [name |-> "ka", type |-> "uint16", function |-> "crc16",
         function_scope |-> "after_field", function_scope_start |-> "a"],
        [name |-> "kr", type |-> "uint16", function |-> "crc16",
         function_scope |-> "specific_bytes", function_scope_start |-> "1:3"],
        [name |-> "ki", type |-> "uint16", function |-> "crc16",
         function_scope |-> "specific_bytes", function_scope_start |-> "2"],
        [name |-> "z", type |-> "uint8"]>>,
        LAMBDA f : f.name \in {"a", "h", "b", "z"} \cup kept)]

\* a calculated field whose descriptor holds the scope keys of scope
FmtBadScope(scope) ==
    [fields |-> <<[name |-> "a", type |-> "uint8"],
                  [name |-> "b", type |-> "uint16"],
                  [name |-> "k", type |-> "uint16", function |-> "length"] @@ scope>>]

Catalogue ==
    <<[format |-> FmtMessage, docs |-> {PDict([header |-> PDict([magic |-> PInt(4660),
        payload_size |-> PInt(n)]), sender |-> PStr(<<97, 98>>), note |-> PStr(<<104, 105>>),
        data |-> PList([j \in 1..n |-> PInt(71 + j)])]) : n \in {0, 2}},
       inputs |-> {<<52, 18, 0, 97, 98, 0, 0, 2, 0, 0, 0, 104, 105>>,
                   <<52, 18, 2, 97, 98, 0, 0, 2, 0, 0, 0, 104, 105>>,
                   <<52, 18, 2, 97, 98, 0, 0, 2, 0, 0, 0, 104, 105, 72>>,
                   <<52, 18, 2, 97, 98, 0, 0, 2, 0, 0, 0, 104, 105, 72, 73>>}],
      \* the same layout in big-endian order, with an array of structs of fixed size
      [format |->
          [endianness |-> "big",
           fields |-> <<
              [name |-> "ver", type |-> "int16"],
              [name |-> "pts", type |-> "array", size |-> 2, element_type |-> "struct",
               element_fields |-> <<[name |-> "id", type |-> "uint8"],
                                    [name |-> "v", type |-> "uint16"]>>]>>],
       docs |-> {PDict([ver |-> PInt(-2), pts |-> PList(<<PDict([id |-> PInt(1), v |-> PInt(513)]),
           PDict([id |-> PInt(2), v |-> PInt(7)])>>)])}],
      [format |-> FmtOpen, docs |-> {PDict([items |-> PList([j \in 1..n |-> PInt(j)])]) : n \in {0,
          3}}, inputs |-> {<<>>, <<1, 0>>, <<1, 0, 2, 0, 3, 0>>}],
      \* a struct without fields and an array of strings
      [format |->
          [fields |-> <<
              [name |-> "s", type |-> "struct", fields |-> <<>>],
              [name |-> "a", type |-> "uint8"],
              [name |-> "tags", type |-> "array", size |-> 2, element_type |-> "string"]>>],
       docs |-> {PDict([s |-> PDict(EmptyDict), a |-> PInt(1), tags |-> PList(<<PStr(<<97>>),
           PStr(<<98>>)>>)])}],
      [format |-> FmtOptionalBare, docs |-> {PDict([count |-> PInt(0)]), PDict([count |-> PInt(5),
          opt |-> PInt(1234)])}],
      \* conditions written with context[...] and data[...], top-level and in a struct
      [format |->
          [fields |-> <<
              [name |-> "count", type |-> "uint8"],
              [name |-> "opt", type |-> "uint16", condition |-> EGt(Ctx(<<"count">>), ELit(0))],
              [name |-> "h", type |-> "struct",
               fields |-> <<[name |-> "n", type |-> "uint8"],
                            [name |-> "x", type |-> "uint16", condition |-> EGt(Dat(<<"n">>), ELit(0))],
                            [name |-> "z", type |-> "uint8"]>>],
              [name |-> "tail", type |-> "uint8"]>>],
       docs |-> {PDict([count |-> PInt(c), h |-> PDict([n |-> PInt(n),
           z |-> PInt(9)] @@ (IF n > 0 THEN [x |-> PInt(300)] ELSE EmptyDict)),
           tail |-> PInt(7)] @@ (IF c > 0 THEN [opt |-> PInt(1234)] ELSE EmptyDict)) : c \in {0, 5},
           n \in {0, 1}}],
      \* a condition on a field that comes later in the layout
      [format |->
          [fields |-> <<
              [name |-> "opt", type |-> "uint16", condition |-> EGt(Ctx(<<"count">>), ELit(0))],
              [name |-> "count", type |-> "uint8"]>>],
       docs |-> {PDict([count |-> PInt(0)]), PDict([count |-> PInt(5), opt |-> PInt(1234)])}],
      [format |-> FmtUnion,
       docs |->
          {PDict([msg |-> PDict([type |-> PInt(1), x |-> PInt(513)])])},
       inputs |->
          Prefixes(<<1, 1, 2>>) \cup {<<2, 97, 98, 0, 0>>, <<3, 1, 2>>}],
      [format |-> FmtUnionPath, docs |-> {PDict([kind |-> PInt(1), msg |-> PDict([type |-> PInt(1),
          x |-> PInt(513)])])}],
      \* calculated fields with descriptor-level scopes (examples/04_two_phase)
      [format |->
          [endianness |-> "little",
           fields |-> <<
              [name |-> "a", type |-> "uint8"],
              [name |-> "b", type |-> "uint16"],
              [name |-> "c", type |-> "uint8"],
              [name |-> "crc", type |-> "uint16", function |-> "crc16",
               function_scope |-> "field_range", function_scope_start |-> "a",
               function_scope_end |-> "b"],
              [name |-> "d", type |-> "uint8"],
              [name |-> "total", type |-> "uint8", function |-> "file_size",
               function_scope |-> "field_range", function_scope_start |-> "b",
               function_scope_end |-> "d"]>>],
       docs |-> {PDict([a |-> PInt(170), b |-> PInt(48076), c |-> PInt(221),
           d |-> PInt(1)] @@ calc) : calc \in {[crc |-> Auto, total |-> Auto], [total |-> Auto],
           [crc |-> PInt(5), total |-> PInt(6)]}}],
      \* tests/test_function_parameters_scope.py: the scope inside function_parameters
      [format |->
          [endianness |-> "little",
           fields |-> <<
              [name |-> "a", type |-> "uint8"],
              [name |-> "b", type |-> "uint16"],
              [name |-> "crc", type |-> "uint32", function |-> "crc32",
               function_scope |-> "entire_file",
               function_parameters |-> [function_scope |-> "field_range",
                                        function_scope_start |-> "a",
                                        function_scope_end |-> "b",
                                        initial_value |-> AllOnes32]],
              [name |-> "len", type |-> "uint8", function |-> "length",
               function_parameters |-> [function_scope |-> "field_range",
                                        function_scope_start |-> "b",
                                        function_scope_end |-> "b"]]>>],
       docs |-> {PDict([a |-> PInt(17), b |-> PInt(8755), crc |-> Auto, len |-> Auto])}],
      \* calculated fields inside a struct and inside an array element
      [format |->
          [fields |-> <<
              [name |-> "h", type |-> "struct",
               fields |-> <<[name |-> "a", type |-> "uint8"],
                            [name |-> "len", type |-> "uint8", function |-> "length"]>>],
              [name |-> "recs", type |-> "array", size |-> 1, element_type |-> "struct",
               element_fields |-> <<[name |-> "v", type |-> "uint8"],
                                    [name |-> "sum", type |-> "uint16", function |-> "crc16"]>>],
              [name |-> "n", type |-> "uint8", function |-> "count",
               function_parameters |-> [key |-> "recs"]]>>],
       docs |-> {PDict([h |-> PDict([a |-> PInt(7), len |-> Auto]),
           recs |-> PList(<<PDict([v |-> PInt(3), sum |-> Auto])>>), n |-> Auto])}],
      \* a layout that depends on the document: a variable string, an optional
      \* field, and calculated fields whose scopes name them
      [format |->
          [fields |-> <<
              [name |-> "flag", type |-> "uint8"],
              [name |-> "s", type |-> "string"],
              [name |-> "extra", type |-> "uint8", condition |-> EGt(Ctx(<<"flag">>), ELit(0))],
              [name |-> "len", type |-> "uint8", function |-> "length"],
              [name |-> "chk", type |-> "uint8", function |-> "length",
               function_scope |-> "from_field", function_scope_start |-> "extra"]>>],
       docs |-> {PDict([flag |-> PInt(1), s |-> PStr(<<97>>), extra |-> PInt(9), len |-> Auto,
           chk |-> Auto]), PDict([flag |-> PInt(0), s |-> PStr(<<97, 98>>), len |-> Auto,
           chk |-> PInt(3)]), PDict([flag |-> PInt(0), s |-> PStr(<<>>), len |-> PInt(1),
           chk |-> PInt(2)])}],
      [format |-> FmtInt24, docs |-> {PDict([v |-> PInt(n), w |-> PInt(513)]) : n \in {1, -1}}],
      [format |-> FmtInt24Big, docs |-> {PDict([v |-> PInt(n), w |-> PInt(513)]) : n \in {1, -1}}],
      [format |-> FmtUint24,
       docs |->
          {PDict([u |-> PInt(1)])},
       inputs |->
          {<<1, 2, 3>>, <<255, 255, 255>>}],
      [format |-> FmtFixedArray,
       docs |->
          {PDict([a |-> PList([j \in 1..m |-> PInt(256 + j)]), t |-> PInt(7)]) : m \in 0..3}],
      [format |-> FmtFixedEmpty, docs |-> {PDict([a |-> PList(<<>>), t |-> PInt(7)])}],
      [format |-> FmtFixedStructs,
       docs |->
          {PDict([a |-> PList([j \in 1..m |-> PDict([x |-> PInt(j), y |-> PInt(256 + j)])])]) : m \in 1..3}],
      [format |-> FmtFixedString,
       docs |->
          {PDict([s |-> PStr(text), t |-> PInt(7)]) : text \in {<<>>, <<97, 98>>, <<97, 98, 99,
              100>>, <<97, 98, 99, 100, 101, 102>>, <<97, 98, 99, 233>>, <<97, 0>>}},
       inputs |->
          Prefixes(<<97, 98, 0, 0, 7>>) \cup {<<97, 0, 98, 0, 7>>, <<0, 0, 0, 0, 7>>}],
      [format |-> FmtEmptyString,
       docs |-> {PDict([s |-> PStr(text), t |-> PInt(7)]) : text \in {<<>>, <<97, 98>>}},
       inputs |-> {<<7>>}],
      [format |-> FmtUnionWide,
       docs |->
          {},
       inputs |->
          Prefixes(<<2, 1, 7, 9>>) \cup {<<3, 0, 104, 105, 9>>}],
      [format |-> FmtShort,
       docs |->
          {},
       inputs |->
          Prefixes(<<1, 0, 2, 0, 0, 3, 0, 0, 104, 105, 2, 0, 0, 0, 111, 107, 1, 4, 5>>) \cup {<<1,
              0, 2, 0, 0, 3, 0, 0, 104, 105, 9, 0, 0, 0, 111, 107, 1, 4, 5>>}],
      \* calls that fail in phase 2: a value too large for its field, a function
      \* that does not exist, a scope that names no field
      [format |->
          [fields |-> <<
              [name |-> "a", type |-> "uint8"],
              [name |-> "big", type |-> "uint8", function |-> "length",
               function_parameters |-> [offset |-> 300]],
              [name |-> "h", type |-> "uint16", function |-> "sha1"],
              [name |-> "s", type |-> "uint8", function |-> "length",
               function_scope |-> "field_range", function_scope_start |-> "nope",
               function_scope_end |-> "a"]>>],
       
       docs |-> {PDict(d) : d \in {[a |-> PInt(1), big |-> Auto, h |-> Auto, s |-> Auto],
                                   [a |-> PInt(1), big |-> PInt(5), h |-> Auto, s |-> Auto],
                                   [a |-> PInt(1), big |-> PInt(5), h |-> PInt(6), s |-> Auto],
                                   [big |-> PInt(5), h |-> PInt(6), s |-> PInt(7)],
                                   [a |-> PInt(1), big |-> PInt(5), h |-> PInt(6), s |-> PInt(7)],
                                   [a |-> PInt(300), big |-> PInt(5), h |-> PInt(6), s |-> PInt(7)]}}],
      [format |-> [endianness |-> "little"], docs |-> {PDict([a |-> PInt(1)])}],
      [format |-> [fields |-> <<[name |-> "a", type |-> "bogus"]>>], docs |-> {PDict([a |-> PInt(1)])}],
      [format |-> [fields |-> <<[type |-> "uint8"]>>], docs |-> {PDict([a |-> PInt(1)])}],
      [format |-> [fields |-> <<[name |-> "n", type |-> "uint8"], [name |-> "a", type |-> "array", size |-> 2, element_type |-> "uint8", length_field |-> Ctx(<<"n">>)]>>], docs |-> {PDict([n |-> PInt(1), a |-> PList(<<PInt(5)>>)])}],
      [format |-> [fields |-> <<[name |-> "a", type |-> "array", element_type |-> "uint8"]>>], docs |-> {PDict([a |-> PList(<<PInt(1)>>)])}],
      [format |-> [fields |-> <<[name |-> "k", type |-> "uint8"], [name |-> "u", type |-> "union", discriminator_field |-> <<TName("k")>>, union_variants |-> <<>>]>>],
       docs |->
          {PDict([k |-> PInt(1), u |-> PDict(EmptyDict)])},
       inputs |->
          {<<1, 2>>}],
      \* arrays of two elements, one format for each kind of element
      [format |-> [fields |-> <<[name |-> "a", type |-> "array", size |-> 2, element_type |-> "uint16"]>>],
       docs |-> {},
       inputs |-> Prefixes(<<1, 0, 2, 0>>)],
      [format |-> [fields |-> <<[name |-> "a", type |-> "array", size |-> 2, element_type |-> "int24"]>>],
       docs |-> {},
       inputs |-> Prefixes(<<1, 0, 0, 2, 0, 0>>)],
      [format |-> [fields |-> <<[name |-> "a", type |-> "array", size |-> 2, element_type |-> "uint24"]>>],
       docs |-> {},
       inputs |-> Prefixes(<<1, 0, 0, 2, 0, 0>>)],
      [format |-> [fields |-> <<[name |-> "a", type |-> "array", size |-> 2, element_type |-> "string"]>>],
       docs |-> {},
       inputs |-> Prefixes(<<1, 0, 0, 0, 97, 1, 0, 0, 0, 98>>)],
      [format |-> [fields |-> <<[name |-> "a", type |-> "array", size |-> 2, element_type |-> "struct",
                                 element_fields |-> <<[name |-> "x", type |-> "uint8"],
                                                      [name |-> "y", type |-> "uint8"]>>]>>],
       docs |-> {},
       inputs |-> Prefixes(<<1, 2, 3, 4>>)],
      [format |-> [fields |-> <<[name |-> "a", type |-> "array", size |-> 2, element_type |-> "union",
                                 union_variants |->
                                    <<<<"1", <<[name |-> "type", type |-> "uint8"],
                                               [name |-> "x", type |-> "uint8"]>>>>,
                                      <<"2", <<[name |-> "type", type |-> "uint8"]>>>>>>]>>],
       docs |-> {},
       inputs |-> Prefixes(<<1, 5, 2>>)],
      \* every kind of scope, naming top-level fields and a field of a struct
      [format |-> FmtScopes("b", {"kn", "kp", "ke"}),
       docs |-> {PDict([a |-> PInt(17), h |-> PDict([x |-> PInt(1), y |-> PInt(515)]),
                        b |-> PInt(8755), kn |-> Auto, kp |-> Auto, ke |-> Auto, z |-> PInt(9)])}],
      [format |-> FmtScopes("x", {"ks", "kf", "kt"}),
       docs |-> {PDict([a |-> PInt(17), h |-> PDict([x |-> PInt(1), y |-> PInt(515)]),
                        b |-> PInt(8755), ks |-> Auto, kf |-> Auto, kt |-> Auto, z |-> PInt(9)])}],
      \* open arrays whose element may take no byte of the buffer
      [format |-> [fields |-> <<[name |-> "n", type |-> "uint8"],
                                [name |-> "a", type |-> "array", size |-> -1, element_type |-> "struct",
                                 element_fields |-> <<>>]>>],
       docs |-> {},
       inputs |-> {<<1>>, <<1, 2>>}],
      [format |-> [fields |-> <<[name |-> "n", type |-> "uint8"],
                                [name |-> "a", type |-> "array", size |-> -1, element_type |-> "struct",
                                 element_fields |-> <<[name |-> "x", type |-> "uint8",
                                                       condition |-> EGt(Ctx(<<"n">>), ELit(0))]>>]>>],
       docs |-> {},
       inputs |-> {<<0>>, <<0, 5>>, <<1>>, <<1, 5, 6>>}],
      \* an open array of unions
      [format |-> [fields |-> <<[name |-> "a", type |-> "array", size |-> -1, element_type |-> "union",
                                 union_variants |->
                                    <<<<"1", <<[name |-> "type", type |-> "uint8"],
                                               [name |-> "x", type |-> "uint8"]>>>>,
                                      <<"2", <<[name |-> "type", type |-> "uint8"]>>>>>>]>>],
       docs |-> {},
       inputs |-> {<<>>, <<9>>, <<1, 5, 2>>, <<1, 5, 9, 2>>, <<1, 5, 2, 1>>}]>>
    \o
    \* scopes that get_scope_data is to refuse, and one it is to accept
    [j \in 1..11 |->
        [format |->
            FmtBadScope(<<[function_scope |-> "bogus"],
                          [function_scope |-> "field_range", function_scope_start |-> "a"],
                          [function_scope |-> "field_range", function_scope_end |-> "b"],
                          [function_scope |-> "from_field"],
                          [function_scope |-> "to_field"],
                          [function_scope |-> "after_field"],
                          [function_scope |-> "specific_bytes"],
                          [function_scope |-> "last_n_bytes"],
                          [function_scope |-> "from_field", function_scope_start |-> "nope"],
                          [function_scope |-> "specific_bytes", function_scope_start |-> "1:x"],
                          [function_scope |-> "after_field", function_scope_start |-> "a"]>>[j]),
         docs |-> {PDict([a |-> PInt(1), b |-> PInt(2), k |-> Auto])}]]
    \o <<
      [format |-> FmtScopes("b", {"ks", "kf", "kt"}),
       docs |-> {PDict([a |-> PInt(17), h |-> PDict([x |-> PInt(1), y |-> PInt(515)]),
                        b |-> PInt(8755), ks |-> Auto, kf |-> Auto, kt |-> Auto, z |-> PInt(9)])}],
      [format |-> FmtScopes("b", {"ka", "kr", "ki"}),
       docs |-> {PDict([a |-> PInt(17), h |-> PDict([x |-> PInt(1), y |-> PInt(515)]),
                        b |-> PInt(8755), ka |-> Auto, kr |-> Auto, ki |-> Auto, z |-> PInt(9)])}]>>

(* ------------------------------------------------------------------ *)
(* ExpressionEvaluator (src/expression_evaluator.py).  An expression is *)
(* the sequence of its characters, each a one-character string, over    *)
(* lower-case letters, digits, blanks, '.', brackets and the operator   *)
(* characters.  A float is the fraction it stands for, so the quotient  *)
(* of two integers is exact; literals with an exponent are left out.    *)
(* The contexts hold integers, and lists and maps of integers.          *)
(* ------------------------------------------------------------------ *)
\* the float n/d, d > 0, in lowest terms
PFloat(n, d) ==
    LET common == {g \in 1..d : n % g = 0 /\ d % g = 0}
        gcd == CHOOSE g \in common : \A k \in common : k <= g
    IN [t |-> "float", n |-> n \div gcd, d |-> d \div gcd]

\* a number as <<numerator, denominator>>; True is 1 and False is 0
Fraction(v) ==
    CASE v.t = "int" -> <<v.i, 1>>
      [] v.t = "bool" -> <<IF v.b THEN 1 ELSE 0, 1>>
      [] v.t = "float" -> <<v.n, v.d>>

\* bool(v)
Truth(v) == IF v.t = "float" THEN v.n # 0 ELSE Truthy(v)

\* ''.join(chars)
RECURSIVE Text(_)
Text(chars) == IF Len(chars) = 0 THEN "" ELSE chars[1] \o Text(Tail(chars))

\* s.strip()
Strip(s) ==
    LET kept == {i \in 1..Len(s) : s[i] # " "}
    IN IF kept = {} THEN <<>>
       ELSE SubSeq(s, CHOOSE i \in kept : \A j \in kept : i <= j,
                   CHOOSE i \in kept : \A j \in kept : j <= i)

\* the number written by the decimal digits s
RECURSIVE DecimalValue(_)
DecimalValue(s) ==
    IF Len(s) = 0 THEN 0
    ELSE 10 * DecimalValue(SubSeq(s, 1, Len(s) - 1))
         + (CHOOSE n \in 0..9 : ToString(n) = s[Len(s)])

\* int(s): an optional sign and decimal digits, or ValueError
IntLiteral(s) ==
    LET signed == Len(s) > 0 /\ s[1] \in {"+", "-"}
        digits == IF signed THEN Tail(s) ELSE s
    IN IF Len(digits) > 0 /\ \A i \in 1..Len(digits) : \E n \in 0..9 : ToString(n) = digits[i]
       THEN [ok |-> TRUE,
             v |-> PInt(IF signed /\ s[1] = "-" THEN -DecimalValue(digits) ELSE DecimalValue(digits))]
       ELSE Raise("ValueError", Text(s))

\* float(s) for an optional sign and digits '.' digits with a digit on
\* either side at least, or ValueError
FloatLiteral(s) ==
    LET signed == Len(s) > 0 /\ s[1] \in {"+", "-"}
        body == IF signed THEN Tail(s) ELSE s
        dots == {i \in 1..Len(body) : body[i] = "."}
        dot == CHOOSE i \in dots : TRUE
        whole == SubSeq(body, 1, dot - 1)
        part == SubSeq(body, dot + 1, Len(body))
        decimal(x) == \A i \in 1..Len(x) : \E n \in 0..9 : ToString(n) = x[i]
        scale == DecimalValue(<<"1">> \o [i \in 1..Len(part) |-> "0"])
        magnitude == DecimalValue(whole) * scale + DecimalValue(part)
    IN IF Cardinality(dots) = 1 /\ decimal(whole) /\ decimal(part) /\ Len(whole) + Len(part) > 0
       THEN [ok |-> TRUE,
             v |-> PFloat(IF signed /\ s[1] = "-" THEN -magnitude ELSE magnitude, scale)]
       ELSE Raise("ValueError", Text(s))

\* _default_context_getter(context, path): the value at the dotted path,
\* PNone where the path leads nowhere
RECURSIVE DefaultContextGetter(_, _)
DefaultContextGetter(value, path) ==
    LET dots == {i \in 1..Len(path) : path[i] = "."}
        stop == IF dots = {} THEN Len(path) + 1 ELSE CHOOSE i \in dots : \A j \in dots : i <= j
        part == SubSeq(path, 1, stop - 1)
        rest == SubSeq(path, stop + 1, Len(path))
        opens == {i \in 1..Len(part) : part[i] = "["}
        open == CHOOSE i \in opens : \A j \in opens : i <= j
        index == IntLiteral(Strip(SubSeq(part, open + 1, Len(part) - 1)))
        array_value == value.d[Text(SubSeq(part, 1, open - 1))]
        at == IF index.v.i < 0 THEN Len(array_value.l) + index.v.i ELSE index.v.i
        found ==
            IF opens # {} /\ part[Len(part)] = "]"
            THEN IF ~(value.t = "dict" /\ Text(SubSeq(part, 1, open - 1)) \in DOMAIN value.d)
                 THEN PNone
                 ELSE IF array_value.t # "list" \/ ~index.ok THEN PNone
                 ELSE IF at < 0 \/ at >= Len(array_value.l) THEN PNone
                 ELSE array_value.l[at + 1]
            ELSE IF value.t = "dict" /\ Text(part) \in DOMAIN value.d THEN value.d[Text(part)]
            ELSE PNone
    IN IF value.t # "dict" \/ Len(path) = 0 THEN PNone
       ELSE IF dots = {} \/ found = PNone THEN found
       ELSE DefaultContextGetter(found, rest)

\* the loop of _split_by_operator from index i (0-based) on
RECURSIVE SplitScan(_, _, _, _, _, _)
SplitScan(expression, operators, right_to_left, i, paren_level, quote_char) ==
    IF i < 0 \/ i >= Len(expression) THEN <<expression>>
    ELSE LET char == expression[i + 1]
             next == IF right_to_left THEN i - 1 ELSE i + 1
             level == IF right_to_left
                      THEN (IF char = ")" THEN paren_level + 1
                            ELSE IF char = "(" THEN paren_level - 1 ELSE paren_level)
                      ELSE (IF char = "(" THEN paren_level + 1
                            ELSE IF char = ")" THEN paren_level - 1 ELSE paren_level)
             matching == {k \in 1..Len(operators) :
                             IF right_to_left
                             THEN /\ i - Len(operators[k]) + 1 >= 0
                                  /\ SubSeq(expression, i - Len(operators[k]) + 2, i + 1) = operators[k]
                             ELSE /\ i + Len(operators[k]) <= Len(expression)
                                  /\ SubSeq(expression, i + 1, i + Len(operators[k])) = operators[k]}
             op == operators[CHOOSE k \in matching : \A m \in matching : k <= m]
         IN IF char \in {"\"", "'"}
            THEN SplitScan(expression, operators, right_to_left, next, paren_level,
                           IF quote_char = "" THEN char
                           ELSE IF quote_char = char THEN "" ELSE quote_char)
            ELSE IF quote_char # ""
            THEN SplitScan(expression, operators, right_to_left, next, paren_level, quote_char)
            ELSE IF level = 0 /\ matching # {}
            THEN (IF right_to_left
                  THEN <<SubSeq(expression, 1, i - Len(op) + 1), SubSeq(expression, i + 2, Len(expression))>>
                  ELSE <<SubSeq(expression, 1, i), SubSeq(expression, i + Len(op) + 1, Len(expression))>>)
            ELSE SplitScan(expression, operators, right_to_left, next, level, quote_char)

\* _split_by_operator(expression, operators, right_to_left)
SplitByOperator(expression, operators, right_to_left) ==
    SplitScan(expression, operators, right_to_left,
              IF right_to_left THEN Len(expression) - 1 ELSE 0, 0, "")

\* the operator a level goes on with: the first of operators, in their
\* order, at which the expression splits in two; <<>> if there is none
FirstOperator(expression, operators, right_to_left) ==
    LET splitting == {k \in 1..Len(operators) :
                         Len(SplitByOperator(expression, <<operators[k]>>, right_to_left)) = 2}
    IN IF splitting = {} THEN <<>>
       ELSE operators[CHOOSE k \in splitting : \A m \in splitting : k <= m]

\* _find_matching_paren(expression, 0) for an expression that starts with
\* '(': its loop from index i (0-based) on
RECURSIVE FindMatchingParen(_, _, _, _)
FindMatchingParen(expression, i, paren_count, quote_char) ==
    IF i >= Len(expression) THEN -1
    ELSE LET char == expression[i + 1]
         IN IF char \in {"\"", "'"}
            THEN FindMatchingParen(expression, i + 1, paren_count,
                                   IF quote_char = "" THEN char
                                   ELSE IF quote_char = char THEN "" ELSE quote_char)
            ELSE IF quote_char # "" THEN FindMatchingParen(expression, i + 1, paren_count, quote_char)
            ELSE IF char = "(" THEN FindMatchingParen(expression, i + 1, paren_count + 1, quote_char)
            ELSE IF char = ")"
            THEN (IF paren_count - 1 = 0 THEN i
                  ELSE FindMatchingParen(expression, i + 1, paren_count - 1, quote_char))
            ELSE FindMatchingParen(expression, i + 1, paren_count, quote_char)

\* any(...) over the operands of '||': the operands are taken in turn, and
\* the first that is true or raises decides
AnyOf(operands) ==
    IF Len(operands) = 1 \/ ~operands[1].ok THEN operands[1]
    ELSE IF Truth(operands[1].v) THEN [ok |-> TRUE, v |-> PBool(TRUE)]
    ELSE IF ~operands[2].ok THEN operands[2]
    ELSE [ok |-> TRUE, v |-> PBool(Truth(operands[2].v))]

\* all(...) over the operands of '&&'
AllOf(operands) ==
    IF Len(operands) = 1 \/ ~operands[1].ok THEN operands[1]
    ELSE IF ~Truth(operands[1].v) THEN [ok |-> TRUE, v |-> PBool(FALSE)]
    ELSE IF ~operands[2].ok THEN operands[2]
    ELSE [ok |-> TRUE, v |-> PBool(Truth(operands[2].v))]

\* left op right for the operands a level parsed; a level that found no
\* operator has one operand and returns it.  Operands that are no numbers
\* are compared for equality only.
BinaryOp(op, operands) ==
    IF Len(operands) = 1 \/ ~operands[1].ok THEN operands[1]
    ELSE IF ~operands[2].ok THEN operands[2]
    ELSE LET left == operands[1].v
             right == operands[2].v
             numeric(v) == v.t \in {"int", "bool", "float"}
             l == Fraction(left)
             r == Fraction(right)
             x == l[1] * r[2]
             y == r[1] * l[2]
             number(n, d) == IF "float" \in {left.t, right.t} THEN PFloat(n, d) ELSE PInt(n)
             same == IF numeric(left) /\ numeric(right) THEN x = y ELSE left = right
         IN IF op = <<"=", "=">> THEN [ok |-> TRUE, v |-> PBool(same)]
            ELSE IF op = <<"!", "=">> THEN [ok |-> TRUE, v |-> PBool(~same)]
            ELSE IF op = <<"/">> /\ numeric(right) /\ r[1] = 0
            THEN Raise("ExpressionError", "Division by zero")
            ELSE IF op = <<"%">> /\ numeric(right) /\ r[1] = 0
            THEN Raise("ExpressionError", "Modulo by zero")
            ELSE IF ~(numeric(left) /\ numeric(right)) THEN Raise("TypeError", Text(op))
            ELSE [ok |-> TRUE,
                  v |-> CASE op = <<"<">> -> PBool(x < y)
                          [] op = <<">">> -> PBool(x > y)
                          [] op = <<"<", "=">> -> PBool(x <= y)
                          [] op = <<">", "=">> -> PBool(x >= y)
                          [] op = <<"+">> -> number(x + y, l[2] * r[2])
                          [] op = <<"-">> -> number(x - y, l[2] * r[2])
                          [] op = <<"*">> -> number(l[1] * r[1], l[2] * r[2])
                          [] op = <<"/">> -> IF y > 0 THEN PFloat(x, y) ELSE PFloat(-x, -y)
                          [] op = <<"%">> ->
                                number(IF y > 0 THEN x % y ELSE -((-x) % (-y)), l[2] * r[2])]

\* `not x`, `-x` or x for the primary that follows the prefix
Prefixed(prefix, primary) ==
    IF ~primary.ok \/ prefix \in {"", "+"} THEN primary
    ELSE IF prefix = "!" THEN [ok |-> TRUE, v |-> PBool(~Truth(primary.v))]
    ELSE IF primary.v.t \notin {"int", "bool", "float"} THEN Raise("TypeError", "-")
    ELSE [ok |-> TRUE,
          v |-> IF primary.v.t = "float" THEN PFloat(-primary.v.n, primary.v.d)
                ELSE PInt(-Fraction(primary.v)[1])]

RECURSIVE ParseLogicalOr(_, _)
RECURSIVE ParseLogicalAnd(_, _)
RECURSIVE ParseEquality(_, _)
RECURSIVE ParseRelational(_, _)
RECURSIVE ParseAdditive(_, _)
RECURSIVE ParseMultiplicative(_, _)
RECURSIVE ParseUnary(_, _)
RECURSIVE ParsePrimary(_, _)

\* _parse_logical_or
ParseLogicalOr(expression, context) ==
    LET parts == SplitByOperator(expression, <<<<"|", "|">>>>, FALSE)
    IN AnyOf([k \in 1..Len(parts) |-> ParseLogicalAnd(IF Len(parts) > 1 THEN Strip(parts[k]) ELSE expression, context)])

\* _parse_logical_and
ParseLogicalAnd(expression, context) ==
    LET parts == SplitByOperator(expression, <<<<"&", "&">>>>, FALSE)
    IN AllOf([k \in 1..Len(parts) |-> ParseEquality(IF Len(parts) > 1 THEN Strip(parts[k]) ELSE expression, context)])

\* _parse_equality
ParseEquality(expression, context) ==
    LET op == FirstOperator(expression, <<<<"=", "=">>, <<"!", "=">>>>, FALSE)
        parts == IF op = <<>> THEN <<expression>> ELSE SplitByOperator(expression, <<op>>, FALSE)
    IN BinaryOp(op, [k \in 1..Len(parts) |->
                        ParseRelational(IF Len(parts) > 1 THEN Strip(parts[k]) ELSE expression, context)])

\* _parse_relational
ParseRelational(expression, context) ==
    LET op == FirstOperator(expression, <<<<"<", "=">>, <<">", "=">>, <<"<">>, <<">">>>>, FALSE)
        parts == IF op = <<>> THEN <<expression>> ELSE SplitByOperator(expression, <<op>>, FALSE)
    IN BinaryOp(op, [k \in 1..Len(parts) |->
                        ParseAdditive(IF Len(parts) > 1 THEN Strip(parts[k]) ELSE expression, context)])

\* _parse_additive: the parts are those of the rightmost '+' or '-', the
\* operator is the first of '+', '-' that the expression holds
ParseAdditive(expression, context) ==
    LET parts == SplitByOperator(expression, <<<<"+">>, <<"-">>>>, TRUE)
    IN BinaryOp(FirstOperator(expression, <<<<"+">>, <<"-">>>>, TRUE),
                [k \in 1..Len(parts) |->
                    ParseMultiplicative(IF Len(parts) > 1 THEN Strip(parts[k]) ELSE expression, context)])

\* _parse_multiplicative
ParseMultiplicative(expression, context) ==
    LET parts == SplitByOperator(expression, <<<<"*">>, <<"/">>, <<"%">>>>, TRUE)
    IN BinaryOp(FirstOperator(expression, <<<<"*">>, <<"/">>, <<"%">>>>, TRUE),
                [k \in 1..Len(parts) |->
                    ParseUnary(IF Len(parts) > 1 THEN Strip(parts[k]) ELSE expression, context)])

\* _parse_unary
ParseUnary(expression, context) ==
    LET stripped == Strip(expression)
        prefix == IF Len(stripped) > 0 /\ stripped[1] \in {"!", "-", "+"} THEN stripped[1] ELSE ""
    IN Prefixed(prefix, ParsePrimary(IF prefix = "" THEN stripped ELSE Strip(Tail(stripped)),
                                     context))

\* _parse_primary: a parenthesised expression, a literal or a field
ParsePrimary(expression, context) ==
    LET stripped == Strip(expression)
        number == IF \E i \in 1..Len(stripped) : stripped[i] \in {".", "e"}
                  THEN FloatLiteral(stripped) ELSE IntLiteral(stripped)
        value == DefaultContextGetter(context, stripped)
    IN IF /\ Len(stripped) > 0 /\ stripped[1] = "(" /\ stripped[Len(stripped)] = ")"
          /\ FindMatchingParen(stripped, 0, 0, "") = Len(stripped) - 1
       THEN ParseLogicalOr(SubSeq(stripped, 2, Len(stripped) - 1), context)
       ELSE IF Text(stripped) \in {"true", "false"}
       THEN [ok |-> TRUE, v |-> PBool(Text(stripped) = "true")]
       ELSE IF number.ok THEN number
       ELSE IF value = PNone THEN Raise("ExpressionError", "Field not found in context")
       ELSE [ok |-> TRUE, v |-> value]

\* ExpressionEvaluator().evaluate(expression, context): whatever the parse
\* raises is raised again as ExpressionError
Evaluate(expression, context) ==
    LET r == ParseLogicalOr(Strip(expression), context)
    IN IF Len(Strip(expression)) = 0 THEN [ok |-> TRUE, v |-> PBool(TRUE)]
       ELSE IF r.ok THEN r
       ELSE [ok |-> FALSE, exc |-> "ExpressionError", cause |-> r.exc, about |-> r.about]

(* ------------------------------------------------------------------ *)
(* The expressions and contexts the evaluator is applied to.            *)
(* ------------------------------------------------------------------ *)
MaxOperand == 1

\* the contexts: the fields a, b and c, a map h, a list d and no field m
Contexts ==
    {PDict([a |-> PInt(a), b |-> PInt(b), c |-> PInt(c),
            h |-> PDict([v |-> PInt(2)]), d |-> PList(<<PInt(1), PInt(2)>>)]) :
        a \in -1..MaxOperand, b \in -1..MaxOperand, c \in -1..MaxOperand}

Expressions ==
    {
      \* well-formed expressions of one operator
      <<"a", "+", "b">>,
      <<"a", " ", "-", " ", "b">>,
      <<"a", "*", "b">>,
      <<"a", "/", "b">>,
      <<"a", "%", "b">>,
      <<"a", "<", "b">>,
      <<"a", "<", "=", "b">>,
      <<"a", ">", "b">>,
      <<"a", ">", "=", "b">>,
      <<"a", "=", "=", "b">>,
      <<"a", "!", "=", "b">>,
      <<"a", "|", "|", "b">>,
      <<"a", "&", "&", "b">>,
      <<"(", "a", "-", "b", ")", "+", "c">>,
      <<"a", "-", "(", "b", "+", "c", ")">>,
      <<"a">>,
      <<"2">>,
      <<"1", ".", "5">>,
      <<"t", "r", "u", "e">>,
      <<"h", ".", "v">>,
      <<"d", "[", "1", "]">>,
      <<"a", "+", "1", ".", "5">>,
      \* chains of operators of one level
      <<"a", "-", "b", "+", "c">>,
      <<"a", " ", "-", " ", "b", " ", "+", " ", "c">>,
      <<"a", "+", "b", "-", "c">>,
      <<"a", "*", "b", "/", "c">>,
      <<"a", "|", "|", "b", "|", "|", "c">>,
      <<"a", "&", "&", "b", "&", "&", "c">>,
      \* unary prefixes
      <<"-", "a">>,
      <<"+", "a">>,
      <<"!", "a">>,
      <<"-", "2">>,
      <<"+", "2">>,
      <<"!", "0">>,
      <<"-", "(", "a", "+", "b", ")">>,
      <<"+", "(", "a", "+", "b", ")">>,
      <<"!", "(", "a", "<", "b", ")">>,
      <<"a", "*", "-", "b">>,
      <<"-", "a", "<", "b">>,
      \* a missing path m, a division and a modulo by zero
      <<"m">>,
      <<"a", "+", "m">>,
      <<"m", "<", "a">>,
      <<"a", "/", "0">>,
      <<"a", "%", "0">>,
      <<"a", "/", "(", "b", "-", "b", ")">>,
      <<"a", "|", "|", "m">>,
      <<"a", "&", "&", "m">>,
      <<"m", "|", "|", "a">>,
      <<"m", "&", "&", "a">>,
      <<"a", "|", "|", "b", "/", "0">>,
      <<"a", "&", "&", "b", "%", "0">>,
      <<"(", "a", "|", "|", "m", ")">>
    }

(* ------------------------------------------------------------------ *)
(* The handler as a state machine.  One handler is constructed with a   *)
(* format of the catalogue; its threads call serialize_to_binary, which *)
(* advances one loop iteration at a time, and deserialize_from_binary.  *)
(* ------------------------------------------------------------------ *)
Threads == {1, 2}

VARIABLES
    fmt,                \* index in Catalogue of the format given to __init__
    calculated_fields,  \* self.calculated_fields
    field_offsets,      \* self.field_offsets
    field_sizes,        \* self.field_sizes
    calls,              \* number of serialize_to_binary calls started
    pc,                 \* per thread: where its call stands
    arg,                \* per thread: the document passed to serialize_to_binary
    buffer,             \* per thread: the BytesIO of phase 1
    idx,                \* per thread: the next field of the phase-1 loop
    phase1_data,        \* per thread: buffer.getvalue(), the `data` of phase 2
    data_array,         \* per thread: the bytearray patched in phase 2
    qidx,               \* per thread: the next entry of the phase-2 loop
    ret,                \* per thread: what the call returned or raised
    restored,           \* per thread: deserialize_from_binary of the returned bytes
    emitted,            \* per thread: name -> <<offset, size>> recorded by this call
    queued,             \* per thread: names this call appended to calculated_fields
    output_file,        \* per thread: whether the call names an output file
    files,              \* per thread: the file its output_file names
    input,              \* per thread: the bytes passed to deserialize_from_binary
    result,             \* per thread: what deserialize_from_binary(input) returned or raised
    running,            \* per thread: the outcome its deserialize_from_binary call runs to
    evaluation          \* the last evaluate call: its expression, context and outcome

handler == <<calculated_fields, field_offsets, field_sizes>>
locals == <<arg, buffer, idx, phase1_data, data_array, qidx, ret, restored, emitted, queued>>
vars == <<fmt, calculated_fields, field_offsets, field_sizes, calls, pc, arg, buffer, idx,
          phase1_data, data_array, qidx, ret, restored, emitted, queued, output_file, files,
          input, result, running, evaluation>>

\* the format_source given to __init__, and whether __init__ returned
Source == Catalogue[fmt].format
Constructed == LoadFormatDefinition(Source).ok

\* self.format_json_dict; where no handler was constructed there is no
\* field to encode or decode
Format == IF Constructed THEN LoadFormatDefinition(Source).format_def ELSE [fields |-> <<>>]
Docs == Catalogue[fmt].docs
Inputs == IF Has(Catalogue[fmt], "inputs") THEN Catalogue[fmt].inputs ELSE {}
NoFile == [exists |-> FALSE, bytes |-> <<>>]
endian_char == EndianChar(Format)

HandlerState ==
    [calculated_fields |-> calculated_fields, field_offsets |-> field_offsets,
     field_sizes |-> field_sizes]

NoResult == [ok |-> FALSE, exc |-> "", cause |-> "", about |-> ""]

\* a serialize_to_binary without its `except Exception`: the exception
\* of the failing phase reaches the caller as it is
BinaryFormatError_Unwrapped(r) ==
    [ok |-> FALSE, exc |-> r.exc, cause |-> r.exc, about |-> r.about]

\* raise BinaryFormatError(f"Serialization failed: {e}")
BinaryFormatError(r) ==
    [ok |-> FALSE, exc |-> "BinaryFormatError", cause |-> r.exc, about |-> r.about]

\* BinaryFormatHandler.__init__
\* the handler after __init__, no call made yet
InitHandler ==
    /\ fmt \in 1..Len(Catalogue)
    /\ calculated_fields = <<>>
    /\ field_offsets = EmptyDict
    /\ field_sizes = EmptyDict
    /\ calls = 0
    /\ pc = [t \in Threads |-> IF Constructed THEN "idle" ELSE "no_handler"]
    /\ arg = [t \in Threads |-> PDict(EmptyDict)]
    /\ buffer = [t \in Threads |-> <<>>]
    /\ idx = [t \in Threads |-> 1]
    /\ phase1_data = [t \in Threads |-> <<>>]
    /\ data_array = [t \in Threads |-> <<>>]
    /\ qidx = [t \in Threads |-> 1]
    /\ ret = [t \in Threads |-> NoResult]
    /\ restored = [t \in Threads |-> NoResult]
    /\ emitted = [t \in Threads |-> EmptyDict]
    /\ queued = [t \in Threads |-> {}]
    /\ output_file = [t \in Threads |-> FALSE]
    /\ files = [t \in Threads |-> NoFile]
    /\ input = [t \in Threads |-> <<>>]
    /\ result = [t \in Threads |-> NoResult]
    /\ running = [t \in Threads |-> NoResult]

\* no evaluate call is under way
Init ==
    /\ InitHandler
    /\ evaluation = [expression |-> <<>>, context |-> PDict(EmptyDict), outcome |-> NoResult]

\* serialize_to_binary(d, output_file) is entered: buffer = io.BytesIO()
Call(t, d, o) ==
    /\ pc[t] \in {"idle", "returned", "raised", "restored"}
    /\ calls < MaxCalls
    /\ calls' = calls + 1
    /\ pc' = [pc EXCEPT ![t] = "phase1"]
    /\ arg' = [arg EXCEPT ![t] = d]
    /\ buffer' = [buffer EXCEPT ![t] = <<>>]
    /\ idx' = [idx EXCEPT ![t] = 1]
    /\ phase1_data' = [phase1_data EXCEPT ![t] = <<>>]
    /\ data_array' = [data_array EXCEPT ![t] = <<>>]
    /\ qidx' = [qidx EXCEPT ![t] = 1]
    /\ ret' = [ret EXCEPT ![t] = NoResult]
    /\ restored' = [restored EXCEPT ![t] = NoResult]
    /\ emitted' = [emitted EXCEPT ![t] = EmptyDict]
    /\ queued' = [queued EXCEPT ![t] = {}]
    /\ output_file' = [output_file EXCEPT ![t] = o]
    /\ UNCHANGED <<fmt, calculated_fields, field_offsets, field_sizes, files>>
    /\ UNCHANGED <<input, result, running, evaluation>>

\* the iteration of phase 1 over field_def ends at `continue`
Phase1Skips(field_def, context) ==
    LET parsed == ParseFieldDefinition(field_def)
    IN /\ parsed.ok
       /\ Has(parsed.field, "condition")
       /\ LET cond == Eval(parsed.field.condition, [context |-> context, data |-> context])
          IN cond.ok /\ ~Truthy(cond.v)

\* one iteration of the loop of _serialize_phase1
Phase1Step(t) ==
    /\ pc[t] = "phase1"
    /\ idx[t] <= Len(Format.fields)
    /\ LET field_def == Format.fields[idx[t]]
           r == Phase1Field(endian_char, HandlerState, field_def, arg[t], buffer[t])
       IN /\ calculated_fields' = r.h.calculated_fields
          /\ field_offsets' = r.h.field_offsets
          /\ field_sizes' = r.h.field_sizes
          /\ queued' = [queued EXCEPT ![t] =
                           IF Len(r.h.calculated_fields) > Len(calculated_fields)
                           THEN @ \cup {field_def.name} ELSE @]
          /\ IF r.ok
             THEN /\ buffer' = [buffer EXCEPT ![t] = r.f]
                  /\ idx' = [idx EXCEPT ![t] = @ + 1]
                  /\ emitted' = [emitted EXCEPT ![t] =
                                    IF Phase1Skips(field_def, arg[t]) THEN @
                                    ELSE (field_def.name :> <<Len(buffer[t]), Len(r.f) - Len(buffer[t])>>) @@ @]
                  /\ UNCHANGED <<pc, ret>>
             ELSE /\ pc' = [pc EXCEPT ![t] = "raised"]
                  /\ ret' = [ret EXCEPT ![t] = BinaryFormatError(r)]
                  /\ UNCHANGED <<buffer, idx, emitted>>
    /\ UNCHANGED <<fmt, calls, arg, phase1_data, data_array, qidx, restored, output_file, files>>
    /\ UNCHANGED <<input, result, running, evaluation>>

\* phase 1 is over: the ScopeResolver is made over the handler's
\* dictionaries and _serialize_phase2 starts on buffer.getvalue()
BeginPhase2(t) ==
    /\ pc[t] = "phase1"
    /\ idx[t] > Len(Format.fields)
    /\ pc' = [pc EXCEPT ![t] = "phase2"]
    /\ phase1_data' = [phase1_data EXCEPT ![t] = buffer[t]]
    /\ data_array' = [data_array EXCEPT ![t] = buffer[t]]
    /\ qidx' = [qidx EXCEPT ![t] = 1]
    /\ UNCHANGED <<fmt, calculated_fields, field_offsets, field_sizes, calls, arg, buffer, idx,
                   ret, restored, emitted, queued, output_file, files>>
    /\ UNCHANGED <<input, result, running, evaluation>>

\* one iteration of the loop of _serialize_phase2
Phase2Step(t) ==
    /\ pc[t] = "phase2"
    /\ qidx[t] <= Len(calculated_fields)
    /\ LET r == Phase2Field(endian_char, HandlerState, calculated_fields[qidx[t]],
                            phase1_data[t], data_array[t], arg[t])
       IN IF r.ok
          THEN /\ data_array' = [data_array EXCEPT ![t] = r.bytes]
               /\ qidx' = [qidx EXCEPT ![t] = @ + 1]
               /\ UNCHANGED <<pc, ret>>
          ELSE /\ pc' = [pc EXCEPT ![t] = "raised"]
               /\ ret' = [ret EXCEPT ![t] = BinaryFormatError(r)]
               /\ UNCHANGED <<data_array, qidx>>
    /\ UNCHANGED <<fmt, calculated_fields, field_offsets, field_sizes, calls, arg, buffer, idx,
                   phase1_data, restored, emitted, queued, output_file, files>>
    /\ UNCHANGED <<input, result, running, evaluation>>

\* the output file is written, if one is named, and final_data returned
Return(t) ==
    /\ pc[t] = "phase2"
    /\ qidx[t] > Len(calculated_fields)
    /\ pc' = [pc EXCEPT ![t] = "returned"]
    /\ files' = [files EXCEPT ![t] = WriteOutput(@, output_file[t], data_array[t])]
    /\ ret' = [ret EXCEPT ![t] = [ok |-> TRUE, bytes |-> data_array[t]]]
    /\ UNCHANGED <<fmt, calculated_fields, field_offsets, field_sizes, calls, arg, buffer, idx,
                   phase1_data, data_array, qidx, restored, emitted, queued, output_file>>
    /\ UNCHANGED <<input, result, running, evaluation>>

\* deserialize_from_binary of the bytes the call returned
Deserialize(t) ==
    /\ pc[t] = "returned"
    /\ pc' = [pc EXCEPT ![t] = "restored"]
    /\ restored' = [restored EXCEPT ![t] = DeserializeFromBinary(Format, ret[t].bytes)]
    /\ UNCHANGED <<fmt, calculated_fields, field_offsets, field_sizes, calls, arg, buffer, idx,
                   phase1_data, data_array, qidx, ret, emitted, queued, output_file, files>>
    /\ UNCHANGED <<input, result, running, evaluation>>

\* deserialize_from_binary(b) is entered by a caller that has not encoded
\* anything; from here on the call runs to the outcome that the format and
\* b determine
DeserializeInput(t, b) ==
    /\ pc[t] = "idle"
    /\ pc' = [pc EXCEPT ![t] = "decoding"]
    /\ input' = [input EXCEPT ![t] = b]
    /\ running' = [running EXCEPT ![t] = DeserializeFromBinary(Format, b)]
    /\ UNCHANGED <<fmt, calculated_fields, field_offsets, field_sizes, calls, arg, buffer, idx,
                   phase1_data, data_array, qidx, ret, restored, emitted, queued, output_file,
                   files, result, evaluation>>

\* the call that runs to r never leaves a `while True` loop
NeverReturns(r) == ~r.ok /\ r.cause = "NoTermination"

\* deserialize_from_binary(input) returns or raises
DeserializeReturn(t) ==
    /\ pc[t] = "decoding"
    /\ ~NeverReturns(running[t])
    /\ pc' = [pc EXCEPT ![t] = "decoded"]
    /\ result' = [result EXCEPT ![t] = running[t]]
    /\ UNCHANGED <<fmt, calculated_fields, field_offsets, field_sizes, calls, arg, buffer, idx,
                   phase1_data, data_array, qidx, ret, restored, emitted, queued, output_file,
                   files, input, running, evaluation>>

Step(t) ==
    \/ \E d \in Docs, o \in BOOLEAN : Call(t, d, o)
    \/ \E b \in Inputs : DeserializeInput(t, b)
    \/ DeserializeReturn(t)
    \/ Phase1Step(t)
    \/ BeginPhase2(t)
    \/ Phase2Step(t)
    \/ Return(t)
    \/ Deserialize(t)

\* one caller: the calls on the handler follow one another
Next == Step(1)

Spec == Init /\ [][Next]_vars

\* two callers on the same handler
NextConcurrent == \E t \in Threads : Step(t)

SpecConcurrent == Init /\ [][NextConcurrent]_vars

\* one caller whose deserialize_from_binary calls run on: the interpreter
\* goes on with a call that was entered until it returns or raises
SpecFair == Spec /\ WF_vars(DeserializeReturn(1))

\* ExpressionEvaluator().evaluate(expression, context) returns or raises
EvaluateExpression ==
    /\ evaluation.outcome = NoResult
    /\ evaluation' = [evaluation EXCEPT
                          !.outcome = Evaluate(evaluation.expression, evaluation.context)]
    /\ UNCHANGED <<fmt, calculated_fields, field_offsets, field_sizes, calls, pc, arg, buffer,
                   idx, phase1_data, data_array, qidx, ret, restored, emitted, queued,
                   output_file, files, input, result, running>>

\* the evaluator alone: it is stateless, so a call stands for itself; the
\* expression and the context of the call are drawn at the start
InitEvaluator ==
    /\ InitHandler
    /\ fmt = 1
    /\ evaluation \in {[expression |-> e, context |-> c, outcome |-> NoResult] :
                           e \in Expressions, c \in Contexts}

SpecEvaluator == InitEvaluator /\ [][EvaluateExpression]_vars

(* ================================================================== *)
(* Properties                                                           *)
(* ================================================================== *)
Done(t) == pc[t] \in {"returned", "raised", "restored"}

\* the JSON definition of an array's element
ElementDef(def) ==
    [name |-> "#", type |-> def.element_type]
    @@ (IF Has(def, "element_fields") THEN ("fields" :> def.element_fields) ELSE EmptyDict)

\* a layout of integer primitives, strings, arrays and structs only
RECURSIVE PlainLayout(_)
PlainLayout(defs) ==
    \A j \in 1..Len(defs) :
        LET def == defs[j]
        IN /\ Has(def, "name") /\ Has(def, "type")
           /\ ~Has(def, "condition") /\ ~Has(def, "function")
           /\ \/ InTypeMap(def.type)
              \/ def.type = "string"
              \/ def.type = "struct" /\ Has(def, "fields") /\ PlainLayout(def.fields)
              \/ def.type = "array" /\ Has(def, "element_type") /\ PlainLayout(<<ElementDef(def)>>)

\* the value conforms to the field definition, root being the whole document
RECURSIVE ConformsTo(_, _, _)
RECURSIVE ConformsAll(_, _, _)
ConformsAll(defs, value, root) ==
    /\ value.t = "dict"
    /\ DOMAIN value.d = {defs[j].name : j \in 1..Len(defs)}
    /\ \A j \in 1..Len(defs) : ConformsTo(defs[j], value.d[defs[j].name], root)

ConformsTo(def, value, root) ==
    CASE InTypeMap(def.type) -> value.t = "int" /\ InRange(TYPE_MAP[def.type], value.i)
      [] def.type = "string" ->
            /\ value.t = "str"
            /\ Has(def, "size") =>
                  /\ Len(Utf8Encode(value.s)) <= def.size
                  /\ (Len(value.s) = 0 \/ value.s[Len(value.s)] # 0)
      [] def.type = "array" ->
            /\ value.t = "list"
            /\ IF Has(def, "length_field")
               THEN LET n == Eval(def.length_field, [context |-> root])
                    IN n.ok /\ n.v = PInt(Len(value.l))
               ELSE Has(def, "size") /\ (def.size < 0 \/ def.size = Len(value.l))
            /\ \A j \in 1..Len(value.l) : ConformsTo(ElementDef(def), value.l[j], root)
      [] def.type = "struct" -> ConformsAll(def.fields, value, root)
      [] OTHER -> FALSE

\* C1: for a format without calculated fields and a document that conforms
\* to it (integer primitives, strings, fixed, computed-length and open
\* arrays, structs), serialize_to_binary succeeds and
\* deserialize_from_binary of its bytes returns the document.
C1_RoundTrip ==
    \A t \in Threads :
        (PlainLayout(Format.fields) /\ ConformsAll(Format.fields, arg[t], arg[t]))
        => /\ pc[t] # "raised"
           /\ pc[t] = "restored" => (restored[t].ok /\ restored[t].result = arg[t])

\* C2: every serialize_to_binary call on a handler, after whatever calls
\* came before it, returns the bytes or the error that the same call
\* returns on a freshly constructed handler.
C2_SameAsFresh ==
    \A t \in Threads :
        pc[t] \in {"returned", "raised"} => ret[t] = SerializeFresh(Format, arg[t])

\* C3: when two serialize_to_binary calls overlap on one handler, the call
\* that ends first returns what it returns when run alone.
C3_AloneUnderInterleaving ==
    \A t, u \in Threads :
        (t # u /\ pc[t] \in {"returned", "raised"} /\ pc[u] \in {"phase1", "phase2"}
           /\ calls = 2)
        => ret[t] = SerializeFresh(Format, arg[t])

(* ---- calculated fields ------------------------------------------- *)
Offset(t, name) == emitted[t][name][1]
Size(t, name) == emitted[t][name][2]
Offsets(t) == [n \in DOMAIN emitted[t] |-> Offset(t, n)]
Sizes(t) == [n \in DOMAIN emitted[t] |-> Size(t, n)]

\* the packed value of fd's function over the bytes scope_bytes
FunctionBytes(t, fd, scope_bytes) ==
    LET field == ParseFieldDefinition(fd).field
        value == CalculateFunctionValue(field, scope_bytes, arg[t],
                                        (fd.name :> CalcSize(TYPE_MAP[fd.type])))
    IN IF value.ok THEN Pack(endian_char, TYPE_MAP[fd.type], value.v) ELSE value

\* the packed value of fd's function over the scope (scope_type, start, end)
\* resolved against the layout of call t, fd's slot being at offset
ScopedBytes(t, fd, scope_type, start, end, offset) ==
    LET scope == GetScopeData(Offsets(t), Sizes(t), phase1_data[t], scope_type, start, end, offset)
    IN IF scope.ok THEN FunctionBytes(t, fd, scope.bytes) ELSE scope

\* the top-level fields the call of t queued as calculated
QueuedFields(t) ==
    {j \in 1..Len(Format.fields) :
        /\ Has(Format.fields[j], "function")
        /\ Format.fields[j].name \in queued[t]
        /\ Format.fields[j].name \in DOMAIN emitted[t]}

Parameters(fd) == Get(fd, "function_parameters", EmptyDict)

\* C4: a scope given in function_parameters overrides the descriptor-level
\* function_scope and the default: the value written into the field's slot
\* is the function over the scope named in function_parameters.
C4_ParametersScopeOverrides ==
    \A t \in Threads :
        pc[t] = "returned" =>
            \A j \in QueuedFields(t) :
                LET fd == Format.fields[j]
                    over(k) == Get(Parameters(fd), k, Get(fd, k, ""))
                    want == ScopedBytes(t, fd,
                                        Get(Parameters(fd), "function_scope",
                                            Get(fd, "function_scope", "all_previous")),
                                        over("function_scope_start"),
                                        over("function_scope_end"), Offset(t, fd.name))
                IN Has(Parameters(fd), "function_scope")
                   => /\ want.ok
                      /\ Slice(ret[t].bytes, Offset(t, fd.name),
                               Offset(t, fd.name) + Size(t, fd.name)) = want.bytes

\* the queued fields of call t whose descriptor names field_range(a, b) with
\* a and b emitted by the call and a not after b
RangeFields(t) ==
    {j \in QueuedFields(t) :
        LET fd == Format.fields[j]
        IN /\ Get(fd, "function_scope", "") = "field_range"
           /\ Has(fd, "function_scope_start") /\ Has(fd, "function_scope_end")
           /\ fd.function_scope_start \in DOMAIN emitted[t]
           /\ fd.function_scope_end \in DOMAIN emitted[t]
           /\ Offset(t, fd.function_scope_start) <= Offset(t, fd.function_scope_end)}

\* C5: a calculated field whose descriptor gives function_scope
\* field_range(a, b), a and b emitted in phase 1 with off(a) <= off(b), gets
\* the value of its function over exactly the phase-1 bytes
\* [off(a), off(b) + size(b)).
C5_FieldRangeBytes ==
    \A t \in Threads :
        pc[t] = "returned" =>
            \A j \in RangeFields(t) :
                LET fd == Format.fields[j]
                    a == fd.function_scope_start
                    b == fd.function_scope_end
                    want == FunctionBytes(t, fd, Slice(phase1_data[t], Offset(t, a),
                                                       Offset(t, b) + Size(t, b)))
                IN /\ want.ok
                   /\ Slice(ret[t].bytes, Offset(t, fd.name),
                            Offset(t, fd.name) + Size(t, fd.name)) = want.bytes

\* a field_range calculated field was patched over a range that ends before
\* the field's own slot and does not start the buffer's tail
C5_Witness ==
    \E t \in Threads :
        /\ pc[t] = "returned"
        /\ \E j \in RangeFields(t) :
              /\ Size(t, Format.fields[j].function_scope_end) > 1
              /\ Offset(t, Format.fields[j].function_scope_end)
                   + Size(t, Format.fields[j].function_scope_end) < Offset(t, Format.fields[j].name)
              /\ Slice(ret[t].bytes, Offset(t, Format.fields[j].name),
                       Offset(t, Format.fields[j].name) + Size(t, Format.fields[j].name))
                   # Zeros(Size(t, Format.fields[j].name))

\* the top-level calculated fields the document leaves out
MissingCalculated(doc) ==
    {Format.fields[j].name : j \in {k \in 1..Len(Format.fields) :
                                       /\ Has(Format.fields[k], "function")
                                       /\ Format.fields[k].name \notin DOMAIN doc.d}}

\* C6: a document that leaves a calculated field out is accepted exactly
\* like the one that gives it as "auto": the call succeeds with the same bytes.
C6_AbsentIsAuto ==
    \A t \in Threads :
        (pc[t] \in {"returned", "raised"} /\ calls = 1 /\ MissingCalculated(arg[t]) # {})
        => LET filled == PDict([n \in MissingCalculated(arg[t]) |-> Auto] @@ arg[t].d)
               auto == SerializeFresh(Format, filled)
           IN auto.ok => (ret[t].ok /\ ret[t].bytes = auto.bytes)

\* the calculated fields of a struct that the document of t gives as
\* "auto": <<j, k>> is child k of the top-level struct j
NestedAuto(t) ==
    {jk \in (1..Len(Format.fields)) \X (1..3) :
        LET fd == Format.fields[jk[1]]
        IN /\ fd.type = "struct" /\ Has(fd, "fields") /\ jk[2] <= Len(fd.fields)
           /\ fd.name \in DOMAIN emitted[t]
           /\ Has(fd.fields[jk[2]], "function")
           /\ Has(arg[t].d, fd.name) /\ arg[t].d[fd.name].t = "dict"
           /\ Has(arg[t].d[fd.name].d, fd.fields[jk[2]].name)
           /\ arg[t].d[fd.name].d[fd.fields[jk[2]].name] = Auto}

\* where child k of the struct j starts in the bytes of call t
ChildOffset(t, j, k) ==
    LET fd == Format.fields[j]
        before == SerializeFields(endian_char,
                                  SubSeq(ParseFieldDefinition(fd).field.fields, 1, k - 1),
                                  arg[t].d[fd.name], arg[t])
    IN Offset(t, fd.name) + Len(before.bytes)

DescriptorScope(t, fd, offset) ==
    ScopedBytes(t, fd, Get(fd, "function_scope", "all_previous"),
                Get(fd, "function_scope_start", ""), Get(fd, "function_scope_end", ""), offset)

\* C7: every field that declares a function and is "auto" in the document,
\* at the top level or inside a struct, holds in the returned bytes the
\* value of its function over its scope, and decoding those bytes returns
\* that value.
C7_EveryAutoFieldPatched ==
    \A t \in Threads :
        /\ pc[t] \in {"returned", "restored"} =>
              /\ \A j \in QueuedFields(t) :
                    LET fd == Format.fields[j]
                        want == DescriptorScope(t, fd, Offset(t, fd.name))
                    IN /\ want.ok
                       /\ Slice(ret[t].bytes, Offset(t, fd.name),
                                Offset(t, fd.name) + Size(t, fd.name)) = want.bytes
              /\ \A jk \in NestedAuto(t) :
                    LET fd == Format.fields[jk[1]].fields[jk[2]]
                        off == ChildOffset(t, jk[1], jk[2])
                        want == DescriptorScope(t, fd, off)
                    IN /\ want.ok
                       /\ Slice(ret[t].bytes, off, off + Len(want.bytes)) = want.bytes
        /\ pc[t] = "restored" =>
              \A j \in QueuedFields(t) :
                    LET fd == Format.fields[j]
                    IN /\ restored[t].ok
                       /\ Has(restored[t].result.d, fd.name)
                       /\ restored[t].result.d[fd.name] =
                             Unpack(endian_char, TYPE_MAP[fd.type],
                                    Slice(ret[t].bytes, Offset(t, fd.name),
                                          Offset(t, fd.name) + Size(t, fd.name)))

(* ---- conditions --------------------------------------------------- *)
\* the subscript chains an expression reads, as <<local, first key>>
RECURSIVE ReadsOf(_)
ReadsOf(expr) ==
    CASE expr.e = "sub" -> {<<expr.local, expr.keys[1]>>}
      [] expr.e = "name" -> {<<"", expr.n>>}
      [] expr.e = "lit" -> {}
      [] OTHER -> ReadsOf(expr.a) \cup ReadsOf(expr.b)

Names(defs, n) == {defs[i].name : i \in 1..n}

Without(defs, j) == SubSeq(defs, 1, j - 1) \o SubSeq(defs, j + 1, Len(defs))

\* the phase-1 bytes of the document of t under the layout defs
Phase1Bytes(t, defs) == Phase1From(endian_char, NewHandlerState, defs, arg[t], <<>>)

\* the top-level conditional fields whose condition is false for the
\* document of t; earlier: only those reading fields that precede them
FalseTop(t, earlier) ==
    {j \in 1..Len(Format.fields) :
        LET fd == Format.fields[j]
        IN /\ Has(fd, "condition")
           /\ Eval(fd.condition, [context |-> arg[t], data |-> arg[t]]) =
                 [ok |-> TRUE, v |-> PBool(FALSE)]
           /\ earlier => \A r \in ReadsOf(fd.condition) :
                             r[2] \in Names(Format.fields, j - 1) \cap DOMAIN arg[t].d}

\* the same for child k of the top-level struct j
FalseNested(t, earlier) ==
    {jk \in (1..Len(Format.fields)) \X (1..3) :
        LET st == Format.fields[jk[1]]
        IN /\ st.type = "struct" /\ Has(st, "fields") /\ jk[2] <= Len(st.fields)
           /\ ~Has(st, "condition")
           /\ Has(arg[t].d, st.name) /\ arg[t].d[st.name].t = "dict"
           /\ Has(st.fields[jk[2]], "condition")
           /\ Eval(st.fields[jk[2]].condition, [context |-> arg[t], data |-> arg[t].d[st.name]]) =
                 [ok |-> TRUE, v |-> PBool(FALSE)]
           /\ earlier => \A r \in ReadsOf(st.fields[jk[2]].condition) :
                            \/ r[1] = "context"
                               /\ r[2] \in Names(Format.fields, jk[1] - 1) \cap DOMAIN arg[t].d
                            \/ r[1] = "data"
                               /\ r[2] \in Names(st.fields, jk[2] - 1) \cap DOMAIN arg[t].d[st.name].d}

\* the fields of defs other than `but` that carry no function are decoded
\* to the values the document gives them
SameValues(defs, but, doc, decoded) ==
    /\ decoded.t = "dict"
    /\ but \notin DOMAIN decoded.d
    /\ \A i \in 1..Len(defs) :
          (defs[i].name # but /\ ~Has(defs[i], "function") /\ Has(doc.d, defs[i].name))
          => (Has(decoded.d, defs[i].name) /\ decoded.d[defs[i].name] = doc.d[defs[i].name])

\* the skipped fields top and nested are not asked of the document, leave no
\* bytes, and are skipped again by the decoder, which reads the other
\* fields where they are
Skipped(t, top, nested) ==
    /\ \A j \in top :
          LET fd == Format.fields[j]
          IN /\ ~(pc[t] = "raised" /\ ret[t].about = "Missing field in data: " \o fd.name)
             /\ pc[t] \in {"phase2", "returned", "restored"}
                   => phase1_data[t] = Phase1Bytes(t, Without(Format.fields, j)).f
             /\ pc[t] = "restored"
                   => /\ restored[t].ok
                      /\ SameValues(Format.fields, fd.name, arg[t], restored[t].result)
    /\ \A jk \in nested :
          LET st == Format.fields[jk[1]]
              less == [st EXCEPT !.fields = Without(@, jk[2])]
          IN /\ pc[t] # "raised"
             /\ pc[t] \in {"phase2", "returned", "restored"}
                   => phase1_data[t] = Phase1Bytes(t, [Format.fields EXCEPT ![jk[1]] = less]).f
             /\ pc[t] = "restored"
                   => /\ restored[t].ok
                      /\ Has(restored[t].result.d, st.name)
                      /\ SameValues(st.fields, st.fields[jk[2]].name, arg[t].d[st.name],
                                    restored[t].result.d[st.name])
                      /\ SameValues(Without(Format.fields, jk[1]), "", arg[t], restored[t].result)

C9_BareNameResolves ==
    \A t \in Threads :
        (Format = FmtOptionalBare /\ pc[t] \in {"returned", "raised"})
        => /\ ret[t].ok
           /\ Len(ret[t].bytes) = IF arg[t].d["count"] = PInt(0) THEN 1 ELSE 3

\* C10: encoding a union field whose discriminator is in the document
\* succeeds: the discriminator bytes are followed by the chosen variant's
\* fields, {msg: {type: 1, x: 513}} giving 01 01 02.
C10_UnionEncodes ==
    \A t \in Threads :
        /\ (Format = FmtUnion /\ pc[t] \in {"returned", "raised"})
           => (ret[t].ok /\ ret[t].bytes = <<1, 1, 2>>)
        /\ (Format = FmtUnionPath /\ pc[t] \in {"returned", "raised"})
           => ret[t].ok

(* ------------------------------------------------------------------ *)
(* Decoding of buffers given to deserialize_from_binary                 *)
(* ------------------------------------------------------------------ *)

\* the format begins with a union field that has a variant
UnionFirst ==
    /\ Len(Format.fields) > 0
    /\ Has(Format.fields[1], "type") /\ Format.fields[1].type = "union"
    /\ Has(Format.fields[1], "name")
    /\ Len(Format.fields[1].union_variants) > 0

\* the discriminator of input b: as many bytes at the union's position 0
\* as the first primitive of the first variant is wide, as a string
PeekedKey(b) ==
    LET first == Format.fields[1].union_variants[1][2][1]
        width == CalcSize(TYPE_MAP[first.type])
    IN IF Len(b) < width THEN "short"
       ELSE StrOfInt(Unpack(EndianChar(Format), TYPE_MAP[first.type], Read(b, 0, width)))

\* the fields of the variant named key read as a structure from position 0 of b
VariantAt(key, b) ==
    DeserializeFields(EndianChar(Format), b, 0,
                      ParseFieldList(VariantFields(Format.fields[1].union_variants, key)).fields,
                      PDict(EmptyDict), <<>>)

\* the fields after the union read from where the variant ended
AfterVariant(key, b) ==
    DeserializeFields(EndianChar(Format), b, VariantAt(key, b).pos,
                      ParseFieldList(Tail(Format.fields)).fields,
                      PDict([k \in {Format.fields[1].name} |-> VariantAt(key, b).context]), <<>>)

\* C11: decoding a union reads the discriminator with the width of the
\* first primitive of the first variant, leaves the cursor where it was
\* before that read, and decodes the variant whose key is the discriminator
\* written as a string in full from that position (discriminator included);
\* its fields appear under the union's name, and the fields after the union
\* are read from where the variant ended.
C11_UnionDecodes ==
    \A t \in Threads :
        (pc[t] = "decoded" /\ UnionFirst
         /\ PeekedKey(input[t]) \in VariantKeys(Format.fields[1].union_variants)
         /\ VariantAt(PeekedKey(input[t]), input[t]).ok
         /\ AfterVariant(PeekedKey(input[t]), input[t]).ok)
        => /\ result[t].ok
           /\ result[t].result = AfterVariant(PeekedKey(input[t]), input[t]).context
           /\ result[t].tell = AfterVariant(PeekedKey(input[t]), input[t]).pos

\* 02 01 07 09 was decoded with the two-byte discriminator 258 read twice:
\* once to choose the variant and once as the variant's first field
C11_Witness ==
    \E t \in Threads :
        /\ pc[t] = "decoded" /\ Format = FmtUnionWide
        /\ input[t] = <<2, 1, 7, 9>>
        /\ result[t].ok
        /\ result[t].result =
              PDict([msg |-> PDict([type |-> PInt(258), x |-> PInt(7)]), tail |-> PInt(9)])
        /\ result[t].tell = 4

\* C12: decoding an array of open length (size -1) over a buffer that
\* holds exactly k >= 1 complete elements gives a list of those k elements at
\* the indices 0..k-1: 01 00 02 00 03 00 decodes to {items: [1, 2, 3]}.
C12_OpenArrayDecodes ==
    \A t \in Threads :
        (pc[t] = "decoded" /\ Format = FmtOpen /\ Len(input[t]) > 0 /\ Len(input[t]) % 2 = 0)
        => /\ result[t].ok
           /\ result[t].result =
                 PDict([items |-> PList([j \in 1..(Len(input[t]) \div 2) |->
                                            PInt(input[t][2 * j - 1] + 256 * input[t][2 * j])])])

\* C13: decoding an array with a length_field gives a list with as many
\* elements as the expression's value n, for every n >= 0; for n = 0 the
\* list is empty.
C13_LengthFieldDecodes ==
    \A t \in Threads :
        (pc[t] = "decoded" /\ Format = FmtMessage /\ Len(input[t]) >= 13
         /\ Len(input[t]) = 13 + input[t][3])
        => /\ result[t].ok
           /\ Has(result[t].result.d, "data")
           /\ result[t].result.d["data"] =
                 PList([j \in 1..input[t][3] |-> PInt(input[t][13 + j])])

(* ------------------------------------------------------------------ *)
(* Arrays and strings of a fixed size, 24-bit integers, byte order      *)
(* ------------------------------------------------------------------ *)

\* the bytes of the n elements of a fixed array over the list l, whose
\* element j takes the bytes Element(j): the first min(Len(l), n) elements
\* of l, then zero-valued elements of the same width
FixedBytes(l, n, width, Element(_)) ==
    LET RECURSIVE From(_)
        From(j) == IF j > n THEN <<>>
                   ELSE (IF j <= Len(l) THEN Element(j) ELSE [k \in 1..width |-> 0]) \o From(j + 1)
    IN From(1)

\* C14: an array with a fixed size n >= 0 (0 included) encodes a list of
\* any length m to exactly n elements: the first min(m, n) elements of the
\* list, then max(0, n - m) zero-valued elements, for primitive and for
\* struct elements.
C14_FixedArrayEncodes ==
    \A t \in Threads :
        pc[t] \in {"returned", "raised"}
        => LET l == arg[t].d["a"].l
           IN /\ Format = FmtFixedArray
                 => /\ ret[t].ok
                    /\ ret[t].bytes =
                          FixedBytes(l, 2, 2, LAMBDA j : <<l[j].i % 256, l[j].i \div 256>>) \o <<7>>
              /\ Format = FmtFixedEmpty => (ret[t].ok /\ ret[t].bytes = <<7>>)
              /\ Format = FmtFixedStructs
                 => /\ ret[t].ok
                    /\ ret[t].bytes =
                          FixedBytes(l, 2, 3, LAMBDA j : <<l[j].d["x"].i, l[j].d["y"].i % 256,
                                                           l[j].d["y"].i \div 256>>)

\* the bytes b cut to their first s bytes, or followed by NULs up to s
CutOrPad(b, s) == [k \in 1..s |-> IF k <= Len(b) THEN b[k] ELSE 0]

\* the bytes b without their trailing NULs
RECURSIVE WithoutTrailingNuls(_)
WithoutTrailingNuls(b) ==
    IF Len(b) > 0 /\ b[Len(b)] = 0 THEN WithoutTrailingNuls(SubSeq(b, 1, Len(b) - 1)) ELSE b

\* the size of the string field s of the formats FmtFixedString and FmtEmptyString
StringSize == Format.fields[1].size

\* C15: a string field with size = s encodes to exactly s bytes, the text's
\* bytes cut to the first s or followed by NULs up to s; decoding reads
\* exactly s bytes and returns their text without the trailing NULs.  The
\* field t that follows is therefore at offset s.
C15_FixedStringBytes ==
    \A t \in Threads :
        Format \in {FmtFixedString, FmtEmptyString}
        => /\ pc[t] \in {"returned", "raised"}
              => /\ ret[t].ok
                 /\ ret[t].bytes = CutOrPad(Utf8Encode(arg[t].d["s"].s), StringSize) \o <<7>>
           /\ (pc[t] = "decoded" /\ Len(input[t]) > StringSize)
              => /\ result[t].ok
                 /\ result[t].result =
                       PDict([s |-> PStr(Utf8Decode(WithoutTrailingNuls(
                                             SubSeq(input[t], 1, StringSize)))),
                              t |-> PInt(input[t][StringSize + 1])])
                 /\ result[t].tell = StringSize + 1

\* C16: an int24 or uint24 field, in either byte order, encodes to exactly
\* three bytes, and decoding them returns the original value (unsigned
\* values zero-extended, signed values sign-extended): the documents of the
\* 24-bit formats encode to their three bytes and the two of the field
\* that follows, and are restored unchanged.
C16_Int24RoundTrip ==
    \A t \in Threads :
        (Format \in {FmtInt24, FmtInt24Big, FmtUint24} /\ Done(t))
        => /\ ret[t].ok
           /\ Len(ret[t].bytes) = 3 + (IF Format = FmtUint24 THEN 0 ELSE 2)
           /\ pc[t] = "restored" => (restored[t].ok /\ restored[t].result = arg[t])

\* a layout of primitives, 24-bit integers, strings, arrays and structs
\* without conditions, calculated fields or unions
RECURSIVE Swappable(_)
Swappable(defs) ==
    \A j \in 1..Len(defs) :
        LET def == defs[j]
        IN /\ Has(def, "name") /\ Has(def, "type")
           /\ ~Has(def, "condition") /\ ~Has(def, "function")
           /\ \/ InTypeMap(def.type) \/ def.type \in {"int24", "uint24", "string"}
              \/ def.type = "struct" /\ Has(def, "fields") /\ Swappable(def.fields)
              \/ def.type = "array" /\ Has(def, "element_type") /\ Swappable(<<ElementDef(def)>>)

\* the widths of the units the output for value is made of, in output
\* order: one unit per primitive and per length prefix, and one unit of
\* width 1 per byte of text
RECURSIVE WidthsOf(_, _)
RECURSIVE WidthsAll(_, _)
WidthsAll(defs, value) ==
    IF Len(defs) = 0 THEN <<>>
    ELSE WidthsOf(defs[1], value.d[defs[1].name]) \o WidthsAll(Tail(defs), value)

WidthsOf(def, value) ==
    CASE InTypeMap(def.type) -> <<CalcSize(TYPE_MAP[def.type])>>
      [] def.type \in {"int24", "uint24"} -> <<3>>
      [] def.type = "string" ->
            IF Has(def, "size") THEN [k \in 1..def.size |-> 1]
            ELSE <<4>> \o [k \in 1..Len(Utf8Encode(value.s)) |-> 1]
      [] def.type = "struct" -> WidthsAll(def.fields, value)
      [] def.type = "array" ->
            LET n == IF Has(def, "length_field") \/ def.size < 0 THEN Len(value.l) ELSE def.size
                RECURSIVE From(_)
                From(j) == IF j > n THEN <<>>
                           ELSE WidthsOf(ElementDef(def),
                                         IF j <= Len(value.l) THEN value.l[j] ELSE PInt(0))
                                \o From(j + 1)
            IN From(1)

\* the bytes b with each unit of the given widths in reversed order
RECURSIVE Mirror(_, _)
Mirror(b, widths) ==
    IF Len(widths) = 0 \/ Len(b) < widths[1] THEN b
    ELSE [k \in 1..widths[1] |-> b[widths[1] + 1 - k]]
         \o Mirror(SubSeq(b, widths[1] + 1, Len(b)), Tail(widths))

\* the format with the other byte order
Swapped(format) ==
    [k \in DOMAIN format \cup {"endianness"} |->
        IF k # "endianness" THEN format[k]
        ELSE IF EndianChar(format) = "<" THEN "big" ELSE "little"]

\* C17: for the same fields and document the outputs under the two byte
\* orders have the same length and field offsets, and differ only in that
\* the bytes of every multi-byte primitive and of the 32-bit length prefix
\* of every variable-size string are in reversed order (layouts without
\* calculated fields).
C17_ByteOrderSymmetry ==
    \A t \in Threads :
        (pc[t] = "returned" /\ Swappable(Format.fields))
        => LET other == SerializeFresh(Swapped(Format), arg[t])
           IN /\ other.ok
              /\ other.bytes = Mirror(ret[t].bytes, WidthsAll(Format.fields, arg[t]))

(* ------------------------------------------------------------------ *)
(* Construction, short buffers and failed calls                         *)
(* ------------------------------------------------------------------ *)

\* the field definitions break a rule of the schema: a name or a type is
\* missing, the type is unknown, an array has both a size and a
\* length_field or neither, or a union has no variant
RECURSIVE InvalidFields(_)
InvalidFields(defs) ==
    \E j \in 1..Len(defs) :
        LET def == defs[j]
        IN \/ ~Has(def, "name") \/ ~Has(def, "type")
           \/ /\ ~InTypeMap(def.type)
              /\ def.type \notin {"int24", "uint24", "string", "array", "struct", "union"}
           \/ def.type = "array" /\ (Has(def, "size") <=> Has(def, "length_field"))
           \/ def.type = "union" /\ Len(Get(def, "union_variants", <<>>)) = 0
           \/ def.type = "struct" /\ Has(def, "fields") /\ InvalidFields(def.fields)

InvalidSchema(format_source) ==
    ~Has(format_source, "fields") \/ InvalidFields(format_source.fields)

\* C18: constructing a handler fails for every invalid schema, so that no
\* call to serialize_to_binary or deserialize_from_binary is ever made on
\* a handler of such a schema.
C18_InvalidSchemaRejected ==
    InvalidSchema(Source) => (~Constructed /\ \A t \in Threads : pc[t] = "no_handler")

\* the units a buffer of the format is read in, each with the name the
\* decoder has for it and the offset at which it ends, for a buffer that
\* begins like the format's complete one
Units ==
    CASE Format = FmtShort ->
            <<<<"a", 2>>, <<"n", 5>>, <<"m", 8>>, <<"s", 10>>, <<"v length", 14>>, <<"v", 16>>,
              <<"discriminator for union u", 17>>, <<"x", 19>>>>
      [] Format = FmtFixedString -> <<<<"s", 4>>, <<"t", 5>>>>
      [] Format = FmtUnion -> <<<<"discriminator for union msg", 1>>, <<"x", 3>>>>
      [] Format = FmtUnionWide ->
            <<<<"discriminator for union msg", 2>>, <<"x", 3>>, <<"tail", 4>>>>
      [] OTHER -> <<>>

\* the first unit that a buffer of n bytes does not hold completely
Missing(n) == Units[CHOOSE j \in 1..Len(Units) :
                        /\ n < Units[j][2]
                        /\ \A k \in 1..(j - 1) : Units[k][2] <= n][1]

\* the buffer ends inside a unit of the format
CutShort(b) == Len(Units) > 0 /\ Len(b) < Units[Len(Units)][2]

Fails(t) == pc[t] \in {"phase1", "phase2"} /\ pc'[t] = "raised"

\* C20: when serialize_to_binary fails in phase 1 or in phase 2 it raises
\* BinaryFormatError and returns no bytes, and the output file, if one was
\* asked for, is neither created nor written: a file changes only in the
\* step that returns the bytes, and then to those bytes.
C20_FailedCallLeavesNothing ==
    [][\A t \in Threads :
          /\ Fails(t) => /\ ~ret'[t].ok
                         /\ ret'[t].exc = "BinaryFormatError"
                         /\ ~Has(ret'[t], "bytes")
                         /\ files'[t] = files[t]
          /\ files'[t] # files[t] => /\ pc[t] = "phase2" /\ pc'[t] = "returned"
                                     /\ output_file[t]
                                     /\ ret'[t].ok
                                     /\ files'[t] = [exists |-> TRUE, bytes |-> ret'[t].bytes]]_vars

\* a call that asked for an output file failed in phase 2, on a cause that
\* is not itself a BinaryFormatError, and there is no file
C20_Witness ==
    \E t \in Threads :
        /\ pc[t] = "raised" /\ output_file[t]
        /\ idx[t] > Len(Format.fields)
        /\ ret[t].exc = "BinaryFormatError" /\ ret[t].cause # "BinaryFormatError"
        /\ ~files[t].exists

\* a format of one array of a fixed, positive number of elements
ElementArray ==
    /\ Len(Format.fields) = 1
    /\ Format.fields[1].type = "array"
    /\ Has(Format.fields[1], "size") /\ Format.fields[1].size > 0
    /\ Has(Format.fields[1], "element_type")

\* the bytes an element of a fixed width takes, 0 for the other elements
ElementWidth(element_type) ==
    IF InTypeMap(element_type) THEN CalcSize(TYPE_MAP[element_type])
    ELSE IF element_type \in {"int24", "uint24"} THEN 3 ELSE 0

\* value stands at an index of the list as an element of the array def:
\* a number read from its own bytes, a text, or the map of the children
ElementPlaced(def, value, own_bytes) ==
    CASE ElementWidth(def.element_type) > 0 -> value = PInt(LittleValue(own_bytes))
      [] def.element_type = "string" -> value.t = "str"
      [] def.element_type = "struct" ->
            /\ value.t = "dict"
            /\ DOMAIN value.d = {def.element_fields[j].name : j \in 1..Len(def.element_fields)}
      [] def.element_type = "union" -> value.t = "dict" /\ Has(value.d, "type")
      [] OTHER -> FALSE

\* C21: a decoded document holds no key made with the sentinel '#': for
\* an array of any element type, a decode that succeeds stores under the
\* array's name, and under no other key, a list whose index i holds
\* element i; a struct or union element is the map of its children.
C21_NoSentinelInDocument ==
    \A t \in Threads :
        (pc[t] = "decoded" /\ ElementArray /\ result[t].ok)
        => LET def == Format.fields[1]
               w == ElementWidth(def.element_type)
               doc == result[t].result
           IN /\ DOMAIN doc.d = {def.name}
              /\ doc.d[def.name].t = "list"
              /\ Len(doc.d[def.name].l) = def.size
              /\ \A j \in 1..def.size :
                    ElementPlaced(def, doc.d[def.name].l[j],
                                  SubSeq(input[t], w * (j - 1) + 1, w * j))

\* <<offset, size>> in the bytes of call t of the field called name, a
\* top-level field or a child of a top-level struct
Placed(t, name) ==
    IF name \in DOMAIN emitted[t] THEN <<Offset(t, name), Size(t, name)>>
    ELSE LET jk == CHOOSE jk \in (1..Len(Format.fields)) \X (1..3) :
                      /\ Format.fields[jk[1]].type = "struct"
                      /\ jk[2] <= Len(Format.fields[jk[1]].fields)
                      /\ Format.fields[jk[1]].fields[jk[2]].name = name
         IN <<ChildOffset(t, jk[1], jk[2]), ChildOffset(t, jk[1], jk[2] + 1) - ChildOffset(t, jk[1], jk[2])>>

\* the interval <<from, to>> of the scope table for the descriptor fd whose
\* slot starts at cur
ScopeInterval(t, fd, cur) ==
    LET kind == Get(fd, "function_scope", "all_previous")
        start == Get(fd, "function_scope_start", "")
        end == Get(fd, "function_scope_end", "")
    IN CASE kind \in {"all_previous", "from_start"} -> <<0, cur>>
         [] kind = "entire_file" -> <<0, Len(phase1_data[t])>>
         [] kind = "from_field" -> <<Placed(t, start)[1], cur>>
         [] kind = "to_field" -> <<0, Placed(t, end)[1] + Placed(t, end)[2]>>
         [] kind = "after_field" -> <<Placed(t, start)[1] + Placed(t, start)[2], cur>>
         [] kind = "last_n_bytes" -> <<Max(0, cur - IntOf(start)), cur>>
         [] kind = "specific_bytes" ->
               IF IsRange(start) THEN RangeOf(start) ELSE <<IntOf(start), IntOf(start) + 1>>

\* C22: for every kind of scope, the value written into a calculated
\* field is its function over the interval of the scope table in the
\* phase-1 buffer, current_offset being the field's own offset and
\* start/end naming a field emitted in phase 1, at the top level or inside
\* a struct; the call succeeds.
C22_ScopeIntervals ==
    \A t \in Threads :
        ((\E start \in {"b", "x"}, kept \in {{"kn", "kp", "ke"}, {"ks", "kf", "kt"}, {"ka", "kr", "ki"}} :
              Format = FmtScopes(start, kept)) /\ Done(t))
        => /\ pc[t] # "raised"
           /\ \A j \in QueuedFields(t) :
                 LET fd == Format.fields[j]
                     cur == Offset(t, fd.name)
                     iv == ScopeInterval(t, fd, cur)
                     want == FunctionBytes(t, fd, Slice(phase1_data[t], iv[1], iv[2]))
                 IN /\ want.ok
                    /\ Slice(ret[t].bytes, cur, cur + Size(t, fd.name)) = want.bytes

\* the scope of the descriptor fd is one the scope table refuses in call
\* t: an unknown kind, a required parameter that is missing, a start or
\* end naming no field emitted by the call, or a malformed byte range
ScopeRefused(t, fd) ==
    LET kind == Get(fd, "function_scope", "all_previous")
        named(key) == Has(fd, key) /\ fd[key] \in DOMAIN emitted[t]
    IN CASE kind \in {"all_previous", "from_start", "entire_file"} -> FALSE
         [] kind = "field_range" -> ~named("function_scope_start") \/ ~named("function_scope_end")
         [] kind \in {"from_field", "after_field"} -> ~named("function_scope_start")
         [] kind = "to_field" -> ~named("function_scope_end")
         [] kind = "last_n_bytes" ->
               ~Has(fd, "function_scope_start") \/ ~IsNumeral(fd.function_scope_start)
         [] kind = "specific_bytes" ->
               \/ ~Has(fd, "function_scope_start")
               \/ ~(IsRange(fd.function_scope_start) \/ IsNumeral(fd.function_scope_start))
         [] OTHER -> TRUE

\* the format is FmtBadScope of the scope keys of its third field
BadScopeFormat ==
    /\ Len(Format.fields) = 3
    /\ Format = FmtBadScope(Restrict(Format.fields[3],
                                     {"function_scope", "function_scope_start",
                                      "function_scope_end"}))

\* C23: a call whose calculated field has a scope that the scope table
\* refuses (unknown kind, missing scope_start/scope_end or N, a name not
\* emitted by the call, a malformed byte range) fails with an error: it
\* returns no bytes and writes no file.
C23_RefusedScopeFails ==
    \A t \in Threads :
        (BadScopeFormat /\ Done(t) /\ ScopeRefused(t, Format.fields[3]))
        => /\ pc[t] = "raised"
           /\ ~ret[t].ok
           /\ files[t] = NoFile

\* C27: decoding terminates for every finite buffer and every element
\* descriptor of an open array, an element that takes no bytes included:
\* every deserialize_from_binary call that is entered comes back, with a
\* document or with an error.
C27_OpenArrayDecodeTerminates ==
    \A t \in Threads : (pc[t] = "decoding") ~> (pc[t] = "decoded")

\* a format of one open array whose elements are unions of one-byte fields
OpenUnionArray ==
    /\ Len(Format.fields) = 1
    /\ Format.fields[1].type = "array"
    /\ Has(Format.fields[1], "size") /\ Format.fields[1].size < 0
    /\ Get(Format.fields[1], "element_type", "") = "union"

\* reading the elements of b one after the other, a discriminator that is
\* the key of no variant is met while bytes remain
RECURSIVE UnknownVariantMet(_, _)
UnknownVariantMet(variants, b) ==
    IF Len(b) = 0 THEN FALSE
    ELSE IF ToString(b[1]) \notin VariantKeys(variants) THEN TRUE
    ELSE LET size == Len(VariantFields(variants, ToString(b[1])))
         IN IF Len(b) < size THEN FALSE
            ELSE UnknownVariantMet(variants, SubSeq(b, size + 1, Len(b)))

\* C28: only the end of the buffer ends an open array without error: when
\* the element is a union and a peeked discriminator matches no variant
\* while bytes remain, deserialize_from_binary fails instead of returning a
\* document with a shortened list.
C28_UnknownVariantInOpenArrayFails ==
    \A t \in Threads :
        (pc[t] = "decoded" /\ OpenUnionArray
         /\ UnknownVariantMet(Format.fields[1].union_variants, input[t]))
        => ~result[t].ok

\* the bytes phase 2 gives for call t when it goes through the queue in
\* the opposite order
PatchedBackwards(t) ==
    Phase2From(endian_char, [HandlerState EXCEPT !.calculated_fields = Reverse(@)], 1,
               phase1_data[t], phase1_data[t], arg[t])

\* C29: every queued calculated field gets the value of its function over
\* its scope in the unmodified phase-1 buffer, in which the slots of the
\* calculated fields hold the zero placeholder, so the bytes returned are
\* those that phase 2 gives in any other order of the queue.
C29_ScopesReadPhase1Buffer ==
    \A t \in Threads :
        pc[t] = "returned" =>
            /\ \A j \in QueuedFields(t) :
                  LET fd == Format.fields[j]
                      want == DescriptorScope(t, fd, Offset(t, fd.name))
                  IN /\ Slice(phase1_data[t], Offset(t, fd.name),
                              Offset(t, fd.name) + Size(t, fd.name)) = Zeros(Size(t, fd.name))
                     /\ want.ok
                     /\ Slice(ret[t].bytes, Offset(t, fd.name),
                              Offset(t, fd.name) + Size(t, fd.name)) = want.bytes
            /\ PatchedBackwards(t) = [ok |-> TRUE, bytes |-> ret[t].bytes]

\* a call returned in which the scope of one calculated field covers the
\* slot of another that was patched before it with a value that is not zero,
\* and the scope of a field covers its own slot
C29_Witness ==
    \E t \in Threads :
        /\ pc[t] = "returned"
        /\ Format = FmtScopes("b", {"kn", "kp", "ke"})
        /\ \E j, k \in QueuedFields(t) :
              LET fj == Format.fields[j]
                  fk == Format.fields[k]
                  iv == ScopeInterval(t, fj, Offset(t, fj.name))
                  own == ScopeInterval(t, fk, Offset(t, fk.name))
              IN /\ k < j
                 /\ iv[1] <= Offset(t, fk.name)
                 /\ Offset(t, fk.name) + Size(t, fk.name) <= iv[2]
                 /\ Slice(ret[t].bytes, Offset(t, fk.name), Offset(t, fk.name) + Size(t, fk.name))
                      # Zeros(Size(t, fk.name))
                 /\ \E m \in QueuedFields(t) :
                       LET fm == Format.fields[m]
                           im == ScopeInterval(t, fm, Offset(t, fm.name))
                       IN im[1] <= Offset(t, fm.name) /\ Offset(t, fm.name) + Size(t, fm.name) <= im[2]

\* the offsets of the slots of the calculated fields queued by call t
QueuedSlots(t) ==
    UNION {Offset(t, Format.fields[j].name)
             .. (Offset(t, Format.fields[j].name) + Size(t, Format.fields[j].name) - 1) :
           j \in QueuedFields(t)}

\* C30: the first call on a handler returns bytes of the length of the
\* phase-1 buffer that are equal to it at every offset outside the slots of
\* the calculated fields the call queued.
C30_OnlySlotsPatched ==
    \A t \in Threads :
        (pc[t] = "returned" /\ calls = 1)
        => /\ Len(ret[t].bytes) = Len(phase1_data[t])
           /\ \A k \in 0..(Len(phase1_data[t]) - 1) :
                 k \notin QueuedSlots(t) => ret[t].bytes[k + 1] = phase1_data[t][k + 1]

\* a first call returned whose phase 2 changed a slot and whose buffer
\* holds bytes that are not zero outside the slots
C30_Witness ==
    \E t \in Threads :
        /\ pc[t] = "returned" /\ calls = 1
        /\ ret[t].bytes # phase1_data[t]
        /\ \E k \in 0..(Len(phase1_data[t]) - 1) :
              k \notin QueuedSlots(t) /\ phase1_data[t][k + 1] # 0
        /\ \E k \in 0..(Len(phase1_data[t]) - 1) :
              k \notin QueuedSlots(t) /\ k > Offset(t, Format.fields[CHOOSE j \in QueuedFields(t) : TRUE].name)

(* ------------------------------------------------------------------ *)
(* The expression evaluator                                             *)
(* ------------------------------------------------------------------ *)
\* evaluate was applied to the expression e
Evaluated(e) == evaluation.expression = e /\ evaluation.outcome # NoResult

\* the call returned the value v
Returned(v) == evaluation.outcome = [ok |-> TRUE, v |-> v]

\* the integer the context of the call holds for a field
Field(name) == evaluation.context.d[name].i

\* C24: a chain of two or more operators of one precedence level is
\* accepted and evaluated left to right, as the repetition of the grammar:
\* a - b + c is (a - b) + c, a * b / c is (a * b) / c, a || b || c and
\* a && b && c are the disjunction and the conjunction of all operands,
\* for every assignment of the operands.
C24_ChainsEvaluateLeftToRight ==
    /\ Evaluated(<<"a", "-", "b", "+", "c">>) => Returned(PInt((Field("a") - Field("b")) + Field("c")))
    /\ Evaluated(<<"a", " ", "-", " ", "b", " ", "+", " ", "c">>) => Returned(PInt((Field("a") - Field("b")) + Field("c")))
    /\ Evaluated(<<"a", "+", "b", "-", "c">>) => Returned(PInt((Field("a") + Field("b")) - Field("c")))
    /\ Evaluated(<<"a", "*", "b", "/", "c">>) =>
          IF Field("c") = 0 THEN ~evaluation.outcome.ok
          ELSE Returned(IF Field("c") > 0 THEN PFloat(Field("a") * Field("b"), Field("c"))
                        ELSE PFloat(-(Field("a") * Field("b")), -Field("c")))
    /\ Evaluated(<<"a", "|", "|", "b", "|", "|", "c">>) => Returned(PBool(Field("a") # 0 \/ Field("b") # 0 \/ Field("c") # 0))
    /\ Evaluated(<<"a", "&", "&", "b", "&", "&", "c">>) => Returned(PBool(Field("a") # 0 /\ Field("b") # 0 /\ Field("c") # 0))

\* C25: a unary prefix applies to the primary that follows it: -x is the
\* negation of x, +x is x and !x is the logical negation of x, for a
\* numeric literal, a field path and a parenthesised expression, also where
\* the unary expression is an operand of a binary operator.
C25_UnaryPrefixApplies ==
    /\ Evaluated(<<"-", "a">>) => Returned(PInt(-Field("a")))
    /\ Evaluated(<<"+", "a">>) => Returned(PInt(Field("a")))
    /\ Evaluated(<<"!", "a">>) => Returned(PBool(Field("a") = 0))
    /\ Evaluated(<<"-", "2">>) => Returned(PInt(-2))
    /\ Evaluated(<<"+", "2">>) => Returned(PInt(2))
    /\ Evaluated(<<"!", "0">>) => Returned(PBool(TRUE))
    /\ Evaluated(<<"-", "(", "a", "+", "b", ")">>) => Returned(PInt(-(Field("a") + Field("b"))))
    /\ Evaluated(<<"+", "(", "a", "+", "b", ")">>) => Returned(PInt(Field("a") + Field("b")))
    /\ Evaluated(<<"!", "(", "a", "<", "b", ")">>) => Returned(PBool(~(Field("a") < Field("b"))))
    /\ Evaluated(<<"a", "*", "-", "b">>) => Returned(PInt(Field("a") * (-Field("b"))))
    /\ Evaluated(<<"-", "a", "<", "b">>) => Returned(PBool(-Field("a") < Field("b")))

\* the expressions applied that hold the missing path m, or a division or
\* a modulo whose right operand is zero in every context
Faulty ==
    {<<"m">>,
     <<"a", "+", "m">>,
     <<"m", "<", "a">>,
     <<"a", "/", "0">>,
     <<"a", "%", "0">>,
     <<"a", "/", "(", "b", "-", "b", ")">>,
     <<"a", "|", "|", "m">>,
     <<"a", "&", "&", "m">>,
     <<"m", "|", "|", "a">>,
     <<"m", "&", "&", "a">>,
     <<"a", "|", "|", "b", "/", "0">>,
     <<"a", "&", "&", "b", "%", "0">>,
     <<"(", "a", "|", "|", "m", ")">>}

\* C26: evaluate raises ExpressionError and returns no value for every
\* expression that holds a path missing from the context, or a division or
\* modulo whose right operand evaluates to zero, wherever it stands, the
\* right operand of || and && included.
C26_FaultyExpressionFails ==
    (evaluation.expression \in Faulty /\ evaluation.outcome # NoResult)
        => (~evaluation.outcome.ok /\ evaluation.outcome.exc = "ExpressionError")

====
